---- MODULE Spec2Model ----
(***************************************************************************)
(* Model of the DMP-RAG pipeline of fairdataihub/AI_DMP:                   *)
(*   - the FAISS index build / load / load-or-build operations             *)
(*     (DMPIndexNIH, FAISSIndexer, DMPPipeline._load_or_build_index and    *)
(*     the index step of run_rag_dmp), run by two callers that share one   *)
(*     index directory;                                                    *)
(*   - section generation (NIH_DMPGeneratorRAG), assembly (DMPAssembler)   *)
(*     and the runner run_rag_dmp;                                         *)
(*   - the batch generator DMPGenerator.run;                               *)
(*   - the stages before the index: DataIngestion.ingest_local,            *)
(*     TextChunker.chunk_text and UnifiedWebIngestion._crawl_nih.          *)
(* A file of the index directory is None when absent, else the document    *)
(* list it was written from.  FAISS.save_local writes <name>.faiss and     *)
(* then <name>.pkl; FAISS.load_local reads them in the same order.         *)
(***************************************************************************)
EXTENDS Integers, Sequences, FiniteSets, TLC

\* ------------------------------------------------------------------ bounds
\* Calls made in a row by caller 1, and by caller 2 (the concurrent caller).
MaxCalls == 2

MaxCalls2 == 1

MaxCorpusChanges == 1

Procs == {1, 2}

\* An absent index file.  A file that exists holds at least one document:
\* FAISS.from_documents raises on an empty list, before anything is saved.
None == << >>

\* No handle (self.vstore is None).
NoStore == [index |-> << >>, meta |-> << >>]

\* ------------------------------------------------------------------ corpus
\* A corpus is the content of chunks_dir: one JSON array of chunk texts per
\* *_NIH_chunks.json file.  Chunk texts are numbered.
Corpora ==
  { << >>, << << >> >>, << <<1, 2>> >>, << <<1>>, <<3>> >> }

RECURSIVE DocsFrom(_, _)
\* build_from_chunks, lines 101-106: one Document per array element, with
\* metadata source = the file and id = the position in the array.
DocsFrom(c, f) ==
  IF f > Len(c) THEN << >>
  ELSE [i \in 1..Len(c[f]) |-> [source |-> f, id |-> i - 1, text |-> c[f][i]]]
       \o DocsFrom(c, f + 1)

Docs(c) == DocsFrom(c, 1)

\* ------------------------------------------------------------------ state
VARIABLES
  corpus,      \* the chunk files now in chunks_dir
  nChanges,    \* how many times the corpus was changed
  faiss,       \* <index_name>.faiss : None or the document list indexed
  pkl,         \* <index_name>.pkl   : None or the document list stored
  prog,        \* per caller: which entry point it calls
  flag,        \* per caller: rebuild_index / force_rebuild
  ipc,         \* per caller: position inside the index operation
  calls,       \* per caller: calls started so far
  docs,        \* per caller: documents prepared for FAISS.from_documents
  vstore,      \* per caller: the handle held (NoStore, or [index, meta])
  outcome,     \* per caller: result of each finished call, in order
  path,        \* per caller: path of each call, in order: load / build
  embeds,      \* per caller: completed FAISS.from_documents calls, per call
  rd,          \* per caller: the index structure load_local has read so far
  atCheck,     \* per caller, per call: the DiskShape its existence check found
  quiet,       \* per caller: nothing else touched corpus or index since its first call
  writers,     \* callers that wrote an index file
  cfgModel,    \* the embedding model the configuration names
  fmodel,      \* the model that produced the vectors of the .faiss file
  emb,         \* per caller: self.embeddings, the model of its embeddings object
  vecBy        \* per caller: the model that produced the vectors it embedded or read

VARIABLES
  caller,      \* the entry point used: "run" (run_rag_dmp), "dmp"
               \* (generate_dmp), "one" (generate_section), "none"
  secMap,      \* section_prompt_map: ordered dict, a sequence of [k, v]
  secOrder,    \* generate_dmp's section_order argument (<< >>: not given)
  topK,        \* top_k
  retr,        \* the retriever the generator holds
  info,        \* project_info
  rpc,         \* position of the caller
  sections,    \* the dict of generated sections, in insertion order
  genCalls,    \* keys generate_section was called with, in call order
  gpc,         \* position inside generate_section
  gkey,        \* its section_key
  gctx,        \* its context string (the joined chunk texts)
  variables,   \* the variables it fills the prompt template with
  gdocs,       \* docs, what the retriever returned to it
  gresp,       \* the response of llm.invoke
  gret,        \* the text it returned
  gerr,        \* why it raised: nomap, noprompt, search, llm, strip
  llmCalls,    \* calls of llm.invoke so far
  md,          \* md_text, the assembled markdown (a sequence of lines)
  mdFile,      \* outputs_dir/<out_name>.md
  docxFile,    \* outputs_dir/<out_name>.docx
  mdWrites,    \* writes of the .md file by this run
  docxWrites,  \* writes of the .docx file by this run
  result       \* what the caller returned

VARIABLES
  bexcel,      \* DMPGenerator: excel_input is "missing", "empty" or has "rows"
  bhasTitle,   \* the sheet has a Project_Title column
  brows,       \* the Project_Title of each row of the sheet
  bpc,         \* position inside DMPGenerator.run
  bi,          \* the loop index i
  btext,       \* text, the output of chain.invoke for row i
  bfailed,     \* rows whose chain.invoke raised
  bmdDir,      \* output_md_dir: a set of [name, text, row]
  bdocxDir,    \* output_docx_dir: a set of [name, text, row]
  berr         \* why run raised: noexcel, empty, pandoc

VARIABLES
  aouts,       \* DMPAssembler used directly: what each to_markdown call returned
  aprev        \* the two target files as they were before the saves

inputs == << caller, secMap, secOrder, topK, retr, info >>

loopvars == << sections, genCalls >>

gvars == << gpc, gkey, gctx, variables, gdocs, gresp, gret, gerr, llmCalls >>

outvars == << md, mdFile, docxFile, mdWrites, docxWrites, result >>

rvars == << inputs, rpc, loopvars, gvars, outvars >>

ivars == << corpus, nChanges, faiss, pkl, prog, flag, ipc, calls, docs, vstore,
            outcome, path, embeds, rd, atCheck, quiet, writers,
            cfgModel, fmodel, emb, vecBy >>

bvars == << bexcel, bhasTitle, brows, bpc, bi, btext, bfailed, bmdDir, bdocxDir, berr >>

avars == << aouts, aprev >>

VARIABLES
  file_paths,   \* DataIngestion.ingest_local_paths: its argument
  npc,          \* position inside ingest_local_paths
  ni,           \* the path of file_paths the loop is at
  manifest,     \* self.manifest["files"]: hash -> entry, in insertion order
  raw_dir,      \* the session's raw_pdfs directory: a set of [name, content]
  added_files,  \* added_files of the call
  ncalls,       \* ingest_local_paths calls so far
  manifestFile, \* manifest.json as last saved
  summary       \* added_files of the summary the last call returned

nvars == << file_paths, npc, ni, manifest, raw_dir, added_files, ncalls, manifestFile,
            summary >>

VARIABLES
  words,        \* TextChunker.chunk_text: text.split()
  chunk_size,   \* self.chunk_size
  overlap,      \* self.overlap
  start,        \* start
  chunks,       \* chunks, each a list of words (joined by " ")
  cpc           \* position inside chunk_text

cvars == << words, chunk_size, overlap, start, chunks, cpc >>

VARIABLES
  web,          \* UnifiedWebIngestion._crawl_nih: the site (links of each page)
  max_pages,    \* self.max_pages
  max_depth,    \* self.max_depth
  visited,      \* visited
  queue,        \* queue, a list of [url, depth]
  fetches,      \* the session.get calls made, in order: [url, depth]
  wfiles,       \* the keys of manifest["files"]
  wsaved,       \* the domain manifest file: whether written, and the keys in it
  saves,        \* calls of _save_manifest
  wpc           \* position inside _crawl_nih

wvars == << web, max_pages, max_depth, visited, queue, fetches, wfiles, wsaved, saves,
            wpc >>

\* The stages before the index: ingestion, chunking, crawl.
pvars == << nvars, cvars, wvars >>

vars == << ivars, rvars, bvars, avars, pvars >>

\* ------------------------------------------------------------------ helpers
Progs == {"lob", "bol", "run", "web"}

Bump(s) == [s EXCEPT ![Len(s)] = @ + 1]

\* A write by caller p (or by the environment, p = 0) ends the quiet period
\* of every other caller.
Disturb(p) == [q \in Procs |-> IF q = p THEN quiet[q] ELSE FALSE]

\* What an observer of the index directory finds: nothing, one file without
\* the other, two files of different document lists, or a valid index.
DiskShape ==
  IF faiss = None /\ pkl = None THEN "empty"
  ELSE IF faiss = None \/ pkl = None THEN "partial"
  ELSE IF faiss # pkl THEN "mismatch"
  ELSE "valid"

\* The call of p ends: with a handle ("ok") or with DocumentPortalException.
Finish(p, res) ==
  /\ outcome' = [outcome EXCEPT ![p] = Append(@, res)]
  /\ ipc' = [ipc EXCEPT ![p] = "idle"]

\* A call starts: per-call history is opened.
Open(p) ==
  /\ ipc[p] = "idle"
  /\ calls[p] < (IF p = 1 THEN MaxCalls ELSE MaxCalls2)
  /\ calls' = [calls EXCEPT ![p] = @ + 1]
  /\ embeds' = [embeds EXCEPT ![p] = Append(@, 0)]
  /\ atCheck' = [atCheck EXCEPT ![p] = Append(@, DiskShape)]
  /\ quiet' = [quiet EXCEPT ![p] = IF calls[p] = 0 THEN TRUE ELSE @]

\* The embedding models a configuration can name.
Models == {"A", "B"}

NoModel == "none"

\* _load_embeddings: an object that already holds embeddings keeps them, a new
\* object loads the configured model; run_rag_dmp makes a new indexer per run.
LoadEmbeddings(p) ==
  IF emb[p] = NoModel \/ prog[p] = "run" THEN {cfgModel} ELSE {emb[p], cfgModel}

\* The load-or-build decision is taken: the load path or the build path; both
\* start with _load_embeddings.
Take(p, load, next) ==
  /\ path' = [path EXCEPT ![p] = Append(@, IF load THEN "load" ELSE "build")]
  /\ ipc' = [ipc EXCEPT ![p] = IF load THEN "load_faiss" ELSE next]
  /\ \E m \in LoadEmbeddings(p) : emb' = [emb EXCEPT ![p] = m]

\* DMPIndexNIH._index_exists, line 82.
IndexExists_AlwaysMissing(faissThere, pklThere) == FALSE

IndexExists(faissThere, pklThere) == faissThere /\ pklThere

\* run_rag_dmp, line 78: rebuild_index or not faiss_file.exists().
RunShouldBuild_IgnoresFlag(rebuild, faissThere) == ~faissThere

RunShouldBuild(rebuild, faissThere) == rebuild \/ ~faissThere

\* DMPPipeline._load_or_build_index, line 88.
WebShouldLoad(faissThere, force) == faissThere /\ ~force

\* FAISSIndexer.build_or_load, line 114.
BolShouldLoad(faissThere) == faissThere

\* ------------------------------------------------------------------ texts
\* Longest model response, in characters.
MaxLen == 2

Chars == {" ", "a"}

IsSpace(c) == c = " "

Texts == UNION {[1..n -> Chars] : n \in 0..MaxLen}

RECURSIVE LStrip(_)
LStrip(t) ==
  IF t = << >> THEN t ELSE IF IsSpace(Head(t)) THEN LStrip(Tail(t)) ELSE t

RECURSIVE RStrip(_)
RStrip(t) ==
  IF t = << >> THEN t
  ELSE IF IsSpace(t[Len(t)]) THEN RStrip(SubSeq(t, 1, Len(t) - 1)) ELSE t

\* str.strip()
Strip(t) == RStrip(LStrip(t))

\* generate_section, line 111.
Placeholder(key) == << "[No content generated for ", key, "]" >>

\* What llm.invoke gives: it raises; or an object whose content is a string,
\* None or a (non-empty) list of content blocks; or an object without a
\* content attribute, of which str() is taken.
Responses ==
  {[kind |-> k, val |-> << >>] : k \in {"raise", "msgNone", "msgList"}}
    \cup {[kind |-> k, val |-> t] : k \in {"msg", "plain"}, t \in Texts}

\* The responses tried inside the loops of generate_dmp and run_rag_dmp: a
\* failure, an empty one, a blank one and one with text.
LoopResponses ==
  { r \in Responses :
      r.kind \in {"raise", "msg"} /\ r.val \in {<< >>, << " " >>, << "a", " " >>} }

NoResponse == [kind |-> "none", val |-> << >>]

\* generate_section, lines 106-115, without the blank test of line 109.
PostProcess_NoBlankTest(key, resp) ==
  IF resp.kind = "msgList" THEN [kind |-> "raise", text |-> << >>]
  ELSE IF resp.kind = "msgNone" \/ resp.val = << >>
    THEN [kind |-> "ret", text |-> Placeholder(key)]
    ELSE [kind |-> "ret", text |-> Strip(resp.val)]

\* generate_section, lines 106-115: the text is response.content when the
\* attribute exists, else str(response); None, "" and blank text give the
\* placeholder; a non-string content has no strip() and raises.
PostProcess(key, resp) ==
  IF resp.kind = "msgNone" THEN [kind |-> "ret", text |-> Placeholder(key)]
  ELSE IF resp.kind = "msgList" THEN [kind |-> "raise", text |-> << >>]
  ELSE IF resp.val = << >> \/ Strip(resp.val) = << >>
    THEN [kind |-> "ret", text |-> Placeholder(key)]
    ELSE [kind |-> "ret", text |-> Strip(resp.val)]

\* ------------------------------------------------------------------ prompts
\* PROMPT_REGISTRY, prompt_library.py.
Registry ==
  {"dmp_data_types", "dmp_metadata", "dmp_access", "dmp_preservation", "dmp_oversight"}

\* build_default_section_map; "custom" stands for a section a caller added
\* with a prompt enum that has no registry entry.
TypeOf(k) ==
  CASE k = "data_types" -> "dmp_data_types"
    [] k = "metadata" -> "dmp_metadata"
    [] k = "access" -> "dmp_access"
    [] k = "preservation" -> "dmp_preservation"
    [] k = "oversight" -> "dmp_oversight"
    [] OTHER -> "dmp_unregistered"

DefaultOrder == << "data_types", "metadata", "access", "preservation", "oversight" >>

MapOf(keys) == [i \in 1..Len(keys) |-> [k |-> keys[i], v |-> TypeOf(keys[i])]]

DefaultMap == MapOf(DefaultOrder)

\* Longest section_prompt_map a caller passes instead of the default one.
MaxMapLen == 2

\* Longest section_order given to generate_dmp.
MaxOrderLen == 2

MapKeyPool == {"access", "data_types", "custom"}

OrderKeyPool == {"access", "data_types", "budget"}

Injective(q) == \A i, j \in 1..Len(q) : q[i] = q[j] => i = j

\* A dict keeps its keys distinct.
Maps ==
  {DefaultMap} \cup
  { MapOf(q) : q \in { x \in UNION {[1..n -> MapKeyPool] : n \in 1..MaxMapLen} :
                          Injective(x) } }

Orders == UNION {[1..n -> OrderKeyPool] : n \in 0..MaxOrderLen}

\* ------------------------------------------------------------------ dicts
Keys(d) == [i \in 1..Len(d) |-> d[i].k]

Has(d, key) == \E i \in 1..Len(d) : d[i].k = key

Get(d, key) == d[CHOOSE i \in 1..Len(d) : d[i].k = key].v

\* d[key] = val, putting a new key first.
DictSet_Prepend(d, key, val) ==
  IF Has(d, key)
    THEN [i \in 1..Len(d) |-> IF d[i].k = key THEN [k |-> key, v |-> val] ELSE d[i]]
    ELSE << [k |-> key, v |-> val] >> \o d

\* d[key] = val: a new key goes last, an existing key keeps its place.
DictSet(d, key, val) ==
  IF Has(d, key)
    THEN [i \in 1..Len(d) |-> IF d[i].k = key THEN [k |-> key, v |-> val] ELSE d[i]]
    ELSE Append(d, [k |-> key, v |-> val])

\* _validate_prompts: the sections whose prompt is not in the registry.
MissingPrompts(map) == { i \in 1..Len(map) : map[i].v \notin Registry }

\* ------------------------------------------------------------------ assembly
Absent == "<absent>"

\* Python truth of a dict.get result: None and "" are false.
Truthy(v) == v # Absent /\ v # ""

\* project_info: the keys to_markdown and _make_query read.
NoInfo ==
  [project_title |-> Absent, title |-> Absent, pi_name |-> Absent,
   institution |-> Absent]

Infos ==
  { NoInfo,
    [project_title |-> "T", title |-> Absent, pi_name |-> "P", institution |-> "I"] }

\* Every project_info tried on the assembler: a key is missing, empty or set.
AsmInfos ==
  [project_title : {Absent, "T"}, title : {Absent, "T2"},
   pi_name : {Absent, "", "P"}, institution : {Absent, "I"}]

\* _make_query, line 125: the project's title as the generator resolves it.
QueryBase(inf) ==
  IF Truthy(inf.project_title) THEN inf.project_title
  ELSE IF Truthy(inf.title) THEN inf.title
  ELSE "research project"

\* key.replace('_', ' ').title()
Heading(key) ==
  CASE key = "data_types" -> "Data Types"
    [] key = "metadata" -> "Metadata"
    [] key = "access" -> "Access"
    [] key = "preservation" -> "Preservation"
    [] key = "oversight" -> "Oversight"
    [] key = "custom" -> "Custom"
    [] key = "budget" -> "Budget"
    [] OTHER -> key

RECURSIVE Blocks(_)
\* to_markdown, lines 19-22: heading, text and an empty line per dict item.
Blocks(secs) ==
  IF secs = << >> THEN << >>
  ELSE << << "## ", Heading(secs[1].k) >>, secs[1].v, << >> >> \o Blocks(Tail(secs))

\* DMPAssembler.to_markdown; the result is the sequence of lines that
\* "\n".join puts together.
ToMarkdown(secs, inf) ==
  << << "# ", "DMP: ",
        IF inf.project_title = Absent THEN "Research Project" ELSE inf.project_title >>,
     << >> >>
  \o (IF Truthy(inf.pi_name) THEN << << "**PI:** ", inf.pi_name >> >> ELSE << >>)
  \o (IF Truthy(inf.institution)
        THEN << << "**Institution:** ", inf.institution >> >> ELSE << >>)
  \o << << >> >>
  \o Blocks(secs)

IsHeading(line) == Len(line) = 2 /\ line[1] = "## "

\* The section headings of a markdown text, in the order they appear.
HeadingsOf(lines) ==
  LET hs == SelectSeq(lines, IsHeading) IN [i \in 1..Len(hs) |-> hs[i][2]]

\* _join_docs: the page contents, two newlines between them.
RECURSIVE JoinDocs(_)
JoinDocs(ds) ==
  IF ds = << >> THEN << >>
  ELSE IF Len(ds) = 1 THEN << ds[1] >>
  ELSE << ds[1], "\n\n" >> \o JoinDocs(Tail(ds))

\* docs[:top_k]: the first top_k, and for a negative top_k all but the
\* last -top_k.
Prefix(ds, n) ==
  IF n >= 0 THEN SubSeq(ds, 1, IF n < Len(ds) THEN n ELSE Len(ds))
  ELSE SubSeq(ds, 1, IF Len(ds) + n > 0 THEN Len(ds) + n ELSE 0)

\* Document.page_content of a chunk.
PageContent(d) == << "c1", "c2", "c3" >>[d.text]

\* Document.page_content of each chunk, last chunk first.
PageContents_Reversed(ds) == [i \in 1..Len(ds) |-> PageContent(ds[Len(ds) + 1 - i])]

\* Document.page_content of each chunk, in the order given.
PageContents(ds) == [i \in 1..Len(ds) |-> PageContent(ds[i])]

\* generate_section, line 101: section_key.replace("_", " ").title().
SectionName(key) ==
  CASE key = "data_types" -> "Data Types"
    [] key = "metadata" -> "Metadata"
    [] key = "access" -> "Access"
    [] key = "preservation" -> "Preservation"
    [] key = "oversight" -> "Oversight"
    [] key = "custom" -> "Custom"
    [] key = "budget" -> "Budget"
    [] OTHER -> key

\* No prompt has been filled yet.
NoVariables == [project_info |-> NoInfo, context |-> << >>, section_name |-> ""]

\* DMPConfigNIH.top_k.
CfgTopK == 6

\* get_retriever that always takes the configured top_k.
GetRetrieverK_Default(k, cfgTopK) == cfgTopK

\* get_retriever, line 158: k or self.cfg.top_k (None and 0 are false).
GetRetrieverK(k, cfgTopK) == IF k # 0 THEN k ELSE cfgTopK

\* The ways a query can rank m of the n vectors of an index.
Rankings(n, m) == { x \in [1..m -> 1..n] : Injective(x) }

\* The documents the docstore holds for the ranked vectors.
Lookup(store, x) == [i \in 1..Len(x) |-> store.meta[x[i]]]

\* The retriever of a store for k > 0: the k nearest vectors in rank order
\* (the rank depends on the query), or all of them when there are fewer;
\* each is looked up in the docstore.
Search(store, k) ==
  LET n == Len(store.index)
      m == IF k < n THEN k ELSE n IN
    { Lookup(store, x) : x \in Rankings(n, m) }

\* No retriever; the retriever get_retriever(asked) makes of a store; some
\* other retriever object, which finds nothing.
NoRetr == [kind |-> "none", asked |-> 0, k |-> 0, store |-> NoStore]

FaissRetr(store, asked, cfgTopK) ==
  [kind |-> "faiss", asked |-> asked, k |-> GetRetrieverK(asked, cfgTopK),
   store |-> store]

OtherRetr == [kind |-> "other", asked |-> 0, k |-> 0, store |-> NoStore]

\* An index built earlier from two chunk files of one chunk each.
BuiltStore ==
  [index |-> Docs(<< <<1>>, <<3>> >>), meta |-> Docs(<< <<1>>, <<3>> >>)]

\* top_k as run_rag_dmp and generate_dmp are called with.
TopKs == {1, 3}

\* top_k and k as generate_section and get_retriever are called with.
AnyKs == {-1, 0, 1, 3}

NoFile == << >>

OldFile == << << "old" >> >>

\* A file just opened for writing holds nothing (as content, NoFile).
Truncated == << >>

NoResult == [kind |-> "none", sections |-> << >>, docx |-> FALSE]

\* save_docx, lines 36-42: a heading or a paragraph per line.
DocxOf(lines) ==
  [i \in 1..Len(lines) |->
     IF lines[i] # << >> /\ lines[i][1] = "# " THEN << "h1", Tail(lines[i]) >>
     ELSE IF lines[i] # << >> /\ lines[i][1] = "## " THEN << "h2", Tail(lines[i]) >>
     ELSE << "p", lines[i] >>]

\* No caller of the generator or the runner is active.
NoRun ==
  /\ caller = "none" /\ secMap = << >> /\ secOrder = << >> /\ topK = 0
  /\ retr = NoRetr /\ gdocs = << >>
  /\ info = NoInfo /\ rpc = "none" /\ sections = << >> /\ genCalls = << >>
  /\ gpc = "idle" /\ gkey = "" /\ gctx = << >> /\ variables = NoVariables /\ gresp = NoResponse
  /\ gret = << >> /\ gerr = "none" /\ llmCalls = 0 /\ md = << >>
  /\ mdFile = NoFile /\ docxFile = NoFile /\ mdWrites = 0 /\ docxWrites = 0
  /\ result = NoResult

\* The assembler is not used on its own.
NoAsm == aouts = << >> /\ aprev = [md |-> NoFile, docx |-> NoFile]

\* No DataIngestion is active.
NoIngest ==
  /\ file_paths = << >> /\ npc = "none" /\ ni = 0 /\ manifest = << >> /\ raw_dir = {}
  /\ added_files = << >> /\ ncalls = 0 /\ manifestFile = << >> /\ summary = << >>

\* No TextChunker is active.
NoChunk ==
  /\ words = << >> /\ chunk_size = 0 /\ overlap = 0 /\ start = 0 /\ chunks = << >>
  /\ cpc = "none"

NotSaved == [written |-> FALSE, files |-> {}]

NoWeb == [links |-> << >>, pdf |-> {}, pdfInternal |-> FALSE]

\* No crawl is active.
NoCrawl ==
  /\ web = NoWeb /\ max_pages = 0 /\ max_depth = 0 /\ visited = {} /\ queue = << >>
  /\ fetches = << >> /\ wfiles = {} /\ wsaved = NotSaved /\ saves = 0 /\ wpc = "none"

\* None of the stages before the index is active.
NoPre == NoIngest /\ NoChunk /\ NoCrawl

\* No DMPGenerator is active.
NoBatch ==
  /\ bexcel = "none" /\ bhasTitle = FALSE /\ brows = << >> /\ bpc = "none"
  /\ bi = 0 /\ btext = << >> /\ bfailed = {} /\ bmdDir = {} /\ bdocxDir = {}
  /\ berr = "none"

\* ------------------------------------------------------------------ index operations
\* DMPIndexNIH.load_or_build -> _index_exists: faiss_file.exists(); the `and`
\* short-circuits when the .faiss file is missing.
LobCheckFaiss(p) ==
  /\ prog[p] = "lob"
  /\ Open(p)
  /\ IF faiss # None
       THEN /\ ipc' = [ipc EXCEPT ![p] = "exists_pkl"]
            /\ path' = path /\ emb' = emb
       ELSE Take(p, IndexExists(FALSE, FALSE), "glob")
  /\ UNCHANGED << corpus, nChanges, faiss, pkl, prog, flag, docs, vstore, outcome,
                  rd, writers, cfgModel, fmodel, vecBy >>

\* _index_exists: pkl_file.exists(), then load_or_build branches.
LobCheckPkl(p) ==
  /\ ipc[p] = "exists_pkl"
  /\ Take(p, IndexExists(TRUE, pkl # None), "glob")
  /\ atCheck' = [atCheck EXCEPT ![p][Len(atCheck[p])] =
                                   IF pkl = None THEN "partial" ELSE @]
  /\ UNCHANGED << corpus, nChanges, faiss, pkl, prog, flag, calls, docs, vstore,
                  outcome, embeds, rd, quiet, writers, cfgModel, fmodel, vecBy >>

\* FAISSIndexer.build_or_load(chunks): the chunks are the caller's argument.
BolCheck(p) ==
  /\ prog[p] = "bol"
  /\ Open(p)
  /\ docs' = [docs EXCEPT ![p] = Docs(corpus)]
  /\ Take(p, BolShouldLoad(faiss # None), "embed")
  /\ UNCHANGED << corpus, nChanges, faiss, pkl, prog, flag, vstore, outcome, rd,
                  writers, cfgModel, fmodel, vecBy >>

\* run_rag_dmp, step 1.
RunCheck(p) ==
  /\ prog[p] = "run"
  /\ Open(p)
  /\ Take(p, ~RunShouldBuild(flag[p], faiss # None), "glob")
  /\ UNCHANGED << corpus, nChanges, faiss, pkl, prog, flag, docs, vstore, outcome,
                  rd, writers, cfgModel, fmodel, vecBy >>

\* DMPPipeline._load_or_build_index(force_rebuild).
WebCheck(p) ==
  /\ prog[p] = "web"
  /\ Open(p)
  /\ Take(p, WebShouldLoad(faiss # None, flag[p]), "glob")
  /\ UNCHANGED << corpus, nChanges, faiss, pkl, prog, flag, docs, vstore, outcome,
                  rd, writers, cfgModel, fmodel, vecBy >>

\* build_from_chunks: glob the chunk files, fail when there is none, read them.
Glob(p) ==
  /\ ipc[p] = "glob"
  /\ IF Len(corpus) = 0
       THEN /\ Finish(p, "error")
            /\ docs' = docs
       ELSE /\ docs' = [docs EXCEPT ![p] = Docs(corpus)]
            /\ ipc' = [ipc EXCEPT ![p] = "embed"]
            /\ outcome' = outcome
  /\ UNCHANGED << corpus, nChanges, faiss, pkl, prog, flag, calls, vstore, path,
                  embeds, rd, atCheck, quiet, writers, cfgModel, fmodel, emb, vecBy >>

\* FAISS.from_documents that makes an index of zero vectors from an empty list.
Embed_AcceptsEmpty(p) ==
  /\ ipc[p] = "embed"
  /\ \E providerOk \in BOOLEAN :
       IF providerOk
         THEN /\ vstore' = [vstore EXCEPT ![p] = [index |-> docs[p], meta |-> docs[p]]]
              /\ vecBy' = [vecBy EXCEPT ![p] = emb[p]]
              /\ embeds' = [embeds EXCEPT ![p] = Bump(@)]
              /\ ipc' = [ipc EXCEPT ![p] = "save_faiss"]
              /\ outcome' = outcome
         ELSE /\ Finish(p, "error")
              /\ UNCHANGED << vstore, embeds, vecBy >>
  /\ UNCHANGED << corpus, nChanges, faiss, pkl, prog, flag, calls, docs, path, rd,
                  atCheck, quiet, writers, cfgModel, fmodel, emb >>

\* FAISS.from_documents: embeds every document; raises on an empty list and
\* when the embedding provider fails.
Embed(p) ==
  /\ ipc[p] = "embed"
  /\ \E providerOk \in BOOLEAN :
       IF docs[p] # << >> /\ providerOk
         THEN /\ vstore' = [vstore EXCEPT ![p] = [index |-> docs[p], meta |-> docs[p]]]
              /\ vecBy' = [vecBy EXCEPT ![p] = emb[p]]
              /\ embeds' = [embeds EXCEPT ![p] = Bump(@)]
              /\ ipc' = [ipc EXCEPT ![p] = "save_faiss"]
              /\ outcome' = outcome
         ELSE /\ Finish(p, "error")
              /\ UNCHANGED << vstore, embeds, vecBy >>
  /\ UNCHANGED << corpus, nChanges, faiss, pkl, prog, flag, calls, docs, path, rd,
                  atCheck, quiet, writers, cfgModel, fmodel, emb >>

\* save_local that writes an index file holding the first vector only.
SaveFaiss_Truncates(p) ==
  /\ ipc[p] = "save_faiss"
  /\ faiss' = SubSeq(vstore[p].index, 1, 1)
  /\ fmodel' = vecBy[p]
  /\ writers' = writers \cup {p}
  /\ quiet' = Disturb(p)
  /\ ipc' = [ipc EXCEPT ![p] = "save_pkl"]
  /\ UNCHANGED << corpus, nChanges, pkl, prog, flag, calls, docs, vstore, outcome,
                  path, embeds, rd, atCheck, cfgModel, emb, vecBy >>

\* FAISS.save_local, first file: write_index(<name>.faiss).
SaveFaiss(p) ==
  /\ ipc[p] = "save_faiss"
  /\ faiss' = vstore[p].index
  /\ fmodel' = vecBy[p]
  /\ writers' = writers \cup {p}
  /\ quiet' = Disturb(p)
  /\ ipc' = [ipc EXCEPT ![p] = "save_pkl"]
  /\ UNCHANGED << corpus, nChanges, pkl, prog, flag, calls, docs, vstore, outcome,
                  path, embeds, rd, atCheck, cfgModel, emb, vecBy >>

\* FAISS.save_local, second file: pickle.dump to <name>.pkl; the call returns.
SavePkl(p) ==
  /\ ipc[p] = "save_pkl"
  /\ pkl' = vstore[p].meta
  /\ quiet' = Disturb(p)
  /\ Finish(p, "ok")
  /\ UNCHANGED << corpus, nChanges, faiss, prog, flag, calls, docs, vstore, path,
                  embeds, rd, atCheck, writers, cfgModel, fmodel, emb, vecBy >>

\* FAISS.load_local, first file: read_index(<name>.faiss).
LoadFaiss(p) ==
  /\ ipc[p] = "load_faiss"
  /\ IF faiss = None
       THEN /\ Finish(p, "error")
            /\ rd' = rd /\ vecBy' = vecBy
       ELSE /\ rd' = [rd EXCEPT ![p] = faiss]
            /\ vecBy' = [vecBy EXCEPT ![p] = fmodel]
            /\ ipc' = [ipc EXCEPT ![p] = "load_pkl"]
            /\ outcome' = outcome
  /\ UNCHANGED << corpus, nChanges, faiss, pkl, prog, flag, calls, docs, vstore,
                  path, embeds, atCheck, quiet, writers, cfgModel, fmodel, emb >>

\* FAISS.load_local, second file: pickle.load(<name>.pkl); the handle is
\* returned without comparing the two.
LoadPkl(p) ==
  /\ ipc[p] = "load_pkl"
  /\ IF pkl = None
       THEN /\ Finish(p, "error")
            /\ vstore' = vstore
       ELSE /\ vstore' = [vstore EXCEPT ![p] = [index |-> rd[p], meta |-> pkl]]
            /\ Finish(p, "ok")
  /\ UNCHANGED << corpus, nChanges, faiss, pkl, prog, flag, calls, docs, path,
                  embeds, rd, atCheck, quiet, writers, cfgModel, fmodel, emb, vecBy >>

\* The chunking stage (external) replaces the chunk files.
CorpusChange ==
  /\ nChanges < MaxCorpusChanges
  /\ \E c \in Corpora \ {corpus} : corpus' = c
  /\ nChanges' = nChanges + 1
  /\ quiet' = Disturb(0)
  /\ UNCHANGED << faiss, pkl, prog, flag, ipc, calls, docs, vstore, outcome, path,
                  embeds, rd, atCheck, writers, cfgModel, fmodel, emb, vecBy >>

\* The operator edits the embedding model named by the configuration.
ConfigChange ==
  /\ \E m \in Models \ {cfgModel} : cfgModel' = m
  /\ UNCHANGED << corpus, nChanges, faiss, pkl, prog, flag, ipc, calls, docs, vstore,
                  outcome, path, embeds, rd, atCheck, quiet, writers, fmodel, emb,
                  vecBy >>

\* The configuration names model "A", which also produced any index already
\* on disk; no caller holds embeddings yet.
InitModels ==
  /\ cfgModel = "A"
  /\ fmodel = IF faiss = None THEN NoModel ELSE "A"
  /\ emb = [p \in Procs |-> NoModel]
  /\ vecBy = [p \in Procs |-> NoModel]

\* The index directory at start: empty, or a complete index built earlier.
\* Each entry point keeps its index under its own directory and name, so the
\* callers that share a location call the same entry point; caller 2 may be
\* absent ("off").
InitIndex ==
  /\ NoRun /\ NoBatch /\ NoAsm /\ NoPre
  /\ corpus \in Corpora
  /\ nChanges = 0
  /\ \E d \in {None, Docs(<< <<1, 2>> >>)} : faiss = d /\ pkl = d
  /\ prog \in [Procs -> Progs \cup {"off"}]
  /\ prog[1] # "off"
  /\ prog[2] \in {"off", prog[1]}
  /\ flag \in [Procs -> BOOLEAN]
  /\ \A p \in Procs : flag[p] => prog[p] \in {"run", "web"}
  /\ ipc = [p \in Procs |-> "idle"]
  /\ calls = [p \in Procs |-> 0]
  /\ docs = [p \in Procs |-> << >>]
  /\ vstore = [p \in Procs |-> NoStore]
  /\ outcome = [p \in Procs |-> << >>]
  /\ path = [p \in Procs |-> << >>]
  /\ embeds = [p \in Procs |-> << >>]
  /\ rd = [p \in Procs |-> None]
  /\ atCheck = [p \in Procs |-> << >>]
  /\ quiet = [p \in Procs |-> TRUE]
  /\ writers = {}
  /\ InitModels

NextIndex ==
  \/ CorpusChange /\ UNCHANGED << rvars, bvars, avars, pvars >>
  \/ \E p \in Procs : LobCheckFaiss(p) /\ UNCHANGED << rvars, bvars, avars, pvars >>
  \/ \E p \in Procs : LobCheckPkl(p) /\ UNCHANGED << rvars, bvars, avars, pvars >>
  \/ \E p \in Procs : BolCheck(p) /\ UNCHANGED << rvars, bvars, avars, pvars >>
  \/ \E p \in Procs : RunCheck(p) /\ UNCHANGED << rvars, bvars, avars, pvars >>
  \/ \E p \in Procs : WebCheck(p) /\ UNCHANGED << rvars, bvars, avars, pvars >>
  \/ \E p \in Procs : Glob(p) /\ UNCHANGED << rvars, bvars, avars, pvars >>
  \/ \E p \in Procs : Embed(p) /\ UNCHANGED << rvars, bvars, avars, pvars >>
  \/ \E p \in Procs : SaveFaiss(p) /\ UNCHANGED << rvars, bvars, avars, pvars >>
  \/ \E p \in Procs : SavePkl(p) /\ UNCHANGED << rvars, bvars, avars, pvars >>
  \/ \E p \in Procs : LoadFaiss(p) /\ UNCHANGED << rvars, bvars, avars, pvars >>
  \/ \E p \in Procs : LoadPkl(p) /\ UNCHANGED << rvars, bvars, avars, pvars >>

SpecIndex == InitIndex /\ [][NextIndex]_vars

\* One caller, and a configuration whose embedding model is edited between
\* its calls.
InitEmbed == InitIndex /\ prog[2] = "off"

NextEmbed ==
  \/ NextIndex
  \/ ConfigChange /\ UNCHANGED << rvars, bvars, avars, pvars >>

SpecEmbed == InitEmbed /\ [][NextEmbed]_vars

\* ------------------------------------------------------------------ generate_section
\* The except clause of generate_section: every exception is logged and
\* raised again as DocumentPortalException.
GenRaise(cause) ==
  /\ gpc' = "raised"
  /\ gerr' = cause

\* generate_section that treats an empty retrieval as a failure.
GenRetrieve_EmptyFails ==
  /\ gpc = "retrieve"
  /\ \/ /\ retr.kind = "faiss" /\ retr.k > 0
        /\ \E ds \in Search(retr.store, retr.k) :
             /\ gdocs' = ds
             /\ gctx' = IF ds = << >> THEN << >>
                        ELSE JoinDocs(PageContents(Prefix(ds, topK)))
        /\ gpc' = "prompt" /\ gerr' = gerr
     \/ /\ retr.kind = "other"
        /\ gdocs' = << >> /\ gctx' = gctx
        /\ GenRaise("nocontext")
     \/ /\ retr.kind = "faiss" /\ retr.k <= 0
        /\ GenRaise("search")
        /\ UNCHANGED << gdocs, gctx >>
  /\ UNCHANGED << ivars, inputs, rpc, loopvars, gkey, variables, gresp, gret,
                  llmCalls, outvars >>

\* Lines 80-86: build the query, ask the retriever, join docs[:top_k].  With
\* k <= 0 the search of the vector store raises (faiss wants k > 0).
GenRetrieve ==
  /\ gpc = "retrieve"
  /\ \/ /\ retr.kind = "faiss" /\ retr.k > 0
        /\ \E ds \in Search(retr.store, retr.k) :
             /\ gdocs' = ds
             /\ gctx' = IF ds = << >> THEN << >>
                        ELSE JoinDocs(PageContents(Prefix(ds, topK)))
        /\ gpc' = "prompt" /\ gerr' = gerr
     \/ /\ retr.kind = "other"
        /\ gdocs' = << >> /\ gctx' = << >>
        /\ gpc' = "prompt" /\ gerr' = gerr
     \/ /\ retr.kind = "faiss" /\ retr.k <= 0
        /\ GenRaise("search")
        /\ UNCHANGED << gdocs, gctx >>
  /\ UNCHANGED << ivars, inputs, rpc, loopvars, gkey, variables, gresp, gret,
                  llmCalls, outvars >>

\* generate_section that goes on to the model when the key has no prompt.
GenLoadPrompt_Lenient ==
  /\ gpc = "prompt"
  /\ gpc' = "invoke" /\ gerr' = gerr
  /\ variables' = [project_info |-> info, context |-> gctx,
                   section_name |-> SectionName(gkey)]
  /\ UNCHANGED << ivars, inputs, rpc, loopvars, gkey, gctx, gdocs, gresp, gret, llmCalls,
                  outvars >>

\* Lines 89-95: the prompt mapping and the registry are looked up.
GenLoadPrompt ==
  /\ gpc = "prompt"
  /\ IF ~Has(secMap, gkey) THEN GenRaise("nomap") /\ variables' = variables
     ELSE IF Get(secMap, gkey) \notin Registry
       THEN GenRaise("noprompt") /\ variables' = variables
     ELSE /\ gpc' = "invoke" /\ gerr' = gerr
          /\ variables' = [project_info |-> info, context |-> gctx,
                           section_name |-> SectionName(gkey)]
  /\ UNCHANGED << ivars, inputs, rpc, loopvars, gkey, gctx, gdocs, gresp, gret, llmCalls,
                  outvars >>

\* llm.invoke called again after a failed call.
GenInvoke_Retries ==
  /\ gpc = "invoke"
  /\ llmCalls' = llmCalls + 1
  /\ \E r \in (IF caller = "one" THEN Responses ELSE LoopResponses) :
       IF r.kind = "raise"
         THEN gpc' = gpc /\ gerr' = gerr /\ gresp' = gresp
         ELSE gpc' = "post" /\ gresp' = r /\ gerr' = gerr
  /\ UNCHANGED << ivars, inputs, rpc, loopvars, gkey, gctx, variables, gdocs, gret, outvars >>

\* Line 105: the one call of the generation model.
GenInvoke ==
  /\ gpc = "invoke"
  /\ llmCalls' = llmCalls + 1
  /\ \E r \in (IF caller = "one" THEN Responses ELSE LoopResponses) :
       IF r.kind = "raise"
         THEN GenRaise("llm") /\ gresp' = gresp
         ELSE gpc' = "post" /\ gresp' = r /\ gerr' = gerr
  /\ UNCHANGED << ivars, inputs, rpc, loopvars, gkey, gctx, variables, gdocs, gret, outvars >>

\* Lines 106-115: the text or the placeholder is returned.
GenPost ==
  /\ gpc = "post"
  /\ LET out == PostProcess(gkey, gresp) IN
       IF out.kind = "raise"
         THEN GenRaise("strip") /\ gret' = gret
         ELSE gpc' = "ret" /\ gret' = out.text /\ gerr' = gerr
  /\ UNCHANGED << ivars, inputs, rpc, loopvars, gkey, gctx, variables, gdocs, gresp, llmCalls,
                  outvars >>

\* generate_section is called with key.
GenCall(key) ==
  /\ gpc' = "retrieve"
  /\ gkey' = key
  /\ genCalls' = Append(genCalls, key)
  /\ UNCHANGED << gctx, variables, gdocs, gresp, gret, gerr, llmCalls >>

\* ------------------------------------------------------------------ loops
\* The for loop is over after n iterations.
LoopDone_OneShort(n, order) == n + 1 >= Len(order)

LoopDone(n, order) == n >= Len(order)

\* generate_dmp, line 152: section_order or list(self.section_prompt_map.keys()).
DmpOrder == IF secOrder = << >> THEN Keys(secMap) ELSE secOrder

\* generate_dmp, lines 155-158: the next section, or the dict is returned.
DmpNextSection ==
  /\ caller = "dmp" /\ rpc = "loop" /\ gpc = "idle"
  /\ IF LoopDone(Len(genCalls), DmpOrder)
       THEN /\ rpc' = "returned"
            /\ result' = [kind |-> "dict", sections |-> sections, docx |-> FALSE]
            /\ UNCHANGED << genCalls, gvars >>
       ELSE /\ GenCall(DmpOrder[Len(genCalls) + 1])
            /\ UNCHANGED << rpc, result >>
  /\ UNCHANGED << ivars, inputs, sections, md, mdFile, docxFile, mdWrites,
                  docxWrites >>

\* generate_dmp, lines 156-161, where a failed section is logged and skipped.
DmpCollect_Skip ==
  /\ caller = "dmp" /\ rpc = "loop" /\ gpc \in {"ret", "raised"}
  /\ sections' = IF gpc = "ret" THEN DictSet(sections, gkey, gret) ELSE sections
  /\ gpc' = "idle"
  /\ UNCHANGED << ivars, inputs, rpc, genCalls, gkey, gctx, variables, gdocs, gresp, gret, gerr,
                  llmCalls, outvars >>

\* generate_dmp, lines 156-161: the text is stored under its key; an
\* exception ends the loop and is raised again.
DmpCollect ==
  /\ caller = "dmp" /\ rpc = "loop" /\ gpc \in {"ret", "raised"}
  /\ IF gpc = "ret"
       THEN /\ sections' = DictSet(sections, gkey, gret)
            /\ gpc' = "idle"
            /\ rpc' = rpc
       ELSE /\ rpc' = "raised"
            /\ UNCHANGED << sections, gpc >>
  /\ UNCHANGED << ivars, inputs, genCalls, gkey, gctx, variables, gdocs, gresp, gret, gerr, llmCalls,
                  outvars >>

\* ------------------------------------------------------------------ run_rag_dmp
\* Lines 71-83: the index step starts.
RunIndexCheck ==
  /\ caller = "run" /\ rpc = "start"
  /\ RunCheck(1)
  /\ rpc' = "index"
  /\ UNCHANGED << inputs, loopvars, gvars, outvars >>

\* Lines 85-93: the index step has ended.  Its exception ends the run; else
\* the retriever is taken, the section map defaults and the generator is
\* built: load_llm may fail and _validate_prompts may raise.
RunInitGenerator ==
  /\ caller = "run" /\ rpc = "index" /\ ipc[1] = "idle"
  /\ LET map == IF secMap = << >> THEN DefaultMap ELSE secMap IN
       \E llmOk \in BOOLEAN :
         IF outcome[1][1] = "error"
           THEN rpc' = "raised" /\ secMap' = secMap /\ retr' = retr
           ELSE /\ retr' = FaissRetr(vstore[1], topK, topK)
                /\ secMap' = map
                /\ rpc' = IF llmOk /\ MissingPrompts(map) = {} THEN "loop" ELSE "raised"
  /\ UNCHANGED << ivars, caller, secOrder, topK, info, loopvars, gvars, outvars >>

\* Lines 99-102: the next section, or the loop is over.
RunNextSection ==
  /\ caller = "run" /\ rpc = "loop" /\ gpc = "idle"
  /\ IF LoopDone(Len(genCalls), Keys(secMap))
       THEN /\ rpc' = "assemble"
            /\ UNCHANGED << genCalls, gvars >>
       ELSE /\ GenCall(Keys(secMap)[Len(genCalls) + 1])
            /\ rpc' = rpc
  /\ UNCHANGED << ivars, inputs, sections, outvars >>

\* Line 102 with lines 136-140, where a failed section is logged and skipped.
RunCollect_Skip ==
  /\ caller = "run" /\ rpc = "loop" /\ gpc \in {"ret", "raised"}
  /\ sections' = IF gpc = "ret" THEN DictSet(sections, gkey, gret) ELSE sections
  /\ gpc' = "idle"
  /\ UNCHANGED << ivars, inputs, rpc, genCalls, gkey, gctx, variables, gdocs, gresp, gret, gerr,
                  llmCalls, outvars >>

\* Line 102 with lines 136-140: sections[sec] is set; the exception of
\* generate_section leaves the try block and is raised to the caller.
RunCollect ==
  /\ caller = "run" /\ rpc = "loop" /\ gpc \in {"ret", "raised"}
  /\ IF gpc = "ret"
       THEN /\ sections' = DictSet(sections, gkey, gret)
            /\ gpc' = "idle"
            /\ rpc' = rpc
       ELSE /\ rpc' = "raised"
            /\ UNCHANGED << sections, gpc >>
  /\ UNCHANGED << ivars, inputs, genCalls, gkey, gctx, variables, gdocs, gresp, gret, gerr, llmCalls,
                  outvars >>

\* Lines 109-110.
RunAssemble ==
  /\ caller = "run" /\ rpc = "assemble"
  /\ md' = ToMarkdown(sections, info)
  /\ rpc' = "save_md"
  /\ UNCHANGED << ivars, inputs, loopvars, gvars, mdFile, docxFile, mdWrites,
                  docxWrites, result >>

\* Lines 112-113: save_markdown writes the text to <out_name>.md.
RunSaveMarkdown ==
  /\ caller = "run" /\ rpc = "save_md"
  /\ mdFile' = md
  /\ mdWrites' = mdWrites + 1
  /\ rpc' = "save_docx"
  /\ UNCHANGED << ivars, inputs, loopvars, gvars, md, docxFile, docxWrites, result >>

\* What a failed save_docx leaves at out_path: the file as it was (the import
\* failed) or the start of the new one (doc.save failed part-way).
DocxLeftovers(before, text) == {before, SubSeq(DocxOf(text), 1, 1)}

\* Lines 116-134, with a failed export raised to the caller of the run.
RunSaveDocx_Raises ==
  /\ caller = "run" /\ rpc = "save_docx"
  /\ \E saved \in BOOLEAN :
       /\ docxFile' \in IF saved THEN {DocxOf(md)} ELSE DocxLeftovers(docxFile, md)
       /\ docxWrites' = IF saved THEN docxWrites + 1 ELSE docxWrites
       /\ result' = IF saved THEN [kind |-> "dict", sections |-> sections, docx |-> TRUE]
                    ELSE result
       /\ rpc' = IF saved THEN "returned" ELSE "raised"
  /\ UNCHANGED << ivars, inputs, loopvars, gvars, md, mdFile, mdWrites >>

\* Lines 116-134: save_docx returns the path, or None when python-docx is
\* missing or the export fails; the result is returned.
RunSaveDocx ==
  /\ caller = "run" /\ rpc = "save_docx"
  /\ \E saved \in BOOLEAN :
       /\ docxFile' \in IF saved THEN {DocxOf(md)} ELSE DocxLeftovers(docxFile, md)
       /\ docxWrites' = IF saved THEN docxWrites + 1 ELSE docxWrites
       /\ result' = [kind |-> "dict", sections |-> sections, docx |-> saved]
  /\ rpc' = "returned"
  /\ UNCHANGED << ivars, inputs, loopvars, gvars, md, mdFile, mdWrites >>

\* ------------------------------------------------------------------ runs
InitOutputs ==
  /\ md = << >> /\ mdWrites = 0 /\ docxWrites = 0 /\ result = NoResult
  /\ sections = << >> /\ gctx = << >> /\ variables = NoVariables /\ gresp = NoResponse /\ gret = << >>
  /\ gdocs = << >> /\ gerr = "none" /\ llmCalls = 0
  /\ info \in Infos

IndexUnused ==
  /\ corpus = << >> /\ nChanges = 0 /\ faiss = None /\ pkl = None
  /\ prog = [p \in Procs |-> "off"] /\ flag = [p \in Procs |-> FALSE]
  /\ ipc = [p \in Procs |-> "idle"] /\ calls = [p \in Procs |-> 0]
  /\ docs = [p \in Procs |-> << >>] /\ vstore = [p \in Procs |-> NoStore]
  /\ outcome = [p \in Procs |-> << >>] /\ path = [p \in Procs |-> << >>]
  /\ embeds = [p \in Procs |-> << >>] /\ rd = [p \in Procs |-> None]
  /\ atCheck = [p \in Procs |-> << >>] /\ quiet = [p \in Procs |-> TRUE]
  /\ writers = {}
  /\ InitModels

\* run_rag_dmp(base_dir, project_info, section_prompt_map, rebuild_index, top_k).
InitRun ==
  /\ caller = "run" /\ rpc = "start"
  /\ topK \in TopKs /\ retr = NoRetr
  /\ secMap \in Maps \cup {<< >>}
  /\ secOrder = << >>
  /\ genCalls = << >> /\ gpc = "idle" /\ gkey = ""
  /\ mdFile \in {NoFile, OldFile} /\ docxFile = NoFile
  /\ InitOutputs
  /\ corpus \in Corpora /\ nChanges = 0
  /\ \E d \in {None, Docs(<< <<1, 2>> >>)} : faiss = d /\ pkl = d
  /\ prog = [p \in Procs |-> IF p = 1 THEN "run" ELSE "off"]
  /\ \E b \in BOOLEAN : flag = [p \in Procs |-> p = 1 /\ b]
  /\ ipc = [p \in Procs |-> "idle"] /\ calls = [p \in Procs |-> 0]
  /\ docs = [p \in Procs |-> << >>] /\ vstore = [p \in Procs |-> NoStore]
  /\ outcome = [p \in Procs |-> << >>] /\ path = [p \in Procs |-> << >>]
  /\ embeds = [p \in Procs |-> << >>] /\ rd = [p \in Procs |-> None]
  /\ atCheck = [p \in Procs |-> << >>] /\ quiet = [p \in Procs |-> TRUE]
  /\ writers = {}
  /\ InitModels

\* NIH_DMPGeneratorRAG(retriever, section_prompt_map).generate_dmp(project_info,
\* section_order, top_k): the constructor has validated the map.
InitDmp ==
  /\ caller = "dmp" /\ rpc = "loop"
  /\ topK \in TopKs /\ retr = FaissRetr(BuiltStore, topK, CfgTopK)
  /\ secMap \in { m \in Maps : MissingPrompts(m) = {} }
  /\ secOrder \in Orders
  /\ genCalls = << >> /\ gpc = "idle" /\ gkey = ""
  /\ mdFile = NoFile /\ docxFile = NoFile
  /\ InitOutputs
  /\ IndexUnused

\* generate_section(section_key, project_info, top_k) called directly.
InitOne ==
  /\ caller = "one" /\ rpc = "one"
  /\ topK \in AnyKs
  /\ retr \in {OtherRetr} \cup {FaissRetr(BuiltStore, k, CfgTopK) : k \in AnyKs}
  /\ secMap \in { m \in Maps : MissingPrompts(m) = {} }
  /\ secOrder = << >>
  /\ \E key \in OrderKeyPool :
       gkey = key /\ genCalls = << key >>
  /\ gpc = "retrieve"
  /\ mdFile = NoFile /\ docxFile = NoFile
  /\ InitOutputs
  /\ IndexUnused

InitGen == (InitRun \/ InitDmp \/ InitOne) /\ NoBatch /\ NoAsm /\ NoPre

NextGen ==
  \/ GenRetrieve /\ UNCHANGED << bvars, avars, pvars >>
  \/ GenLoadPrompt /\ UNCHANGED << bvars, avars, pvars >>
  \/ GenInvoke /\ UNCHANGED << bvars, avars, pvars >>
  \/ GenPost /\ UNCHANGED << bvars, avars, pvars >>
  \/ DmpNextSection /\ UNCHANGED << bvars, avars, pvars >>
  \/ DmpCollect /\ UNCHANGED << bvars, avars, pvars >>
  \/ RunIndexCheck /\ UNCHANGED << bvars, avars, pvars >>
  \/ rpc = "index" /\ Glob(1) /\ UNCHANGED << rvars, bvars, avars, pvars >>
  \/ rpc = "index" /\ Embed(1) /\ UNCHANGED << rvars, bvars, avars, pvars >>
  \/ rpc = "index" /\ SaveFaiss(1) /\ UNCHANGED << rvars, bvars, avars, pvars >>
  \/ rpc = "index" /\ SavePkl(1) /\ UNCHANGED << rvars, bvars, avars, pvars >>
  \/ rpc = "index" /\ LoadFaiss(1) /\ UNCHANGED << rvars, bvars, avars, pvars >>
  \/ rpc = "index" /\ LoadPkl(1) /\ UNCHANGED << rvars, bvars, avars, pvars >>
  \/ RunInitGenerator /\ UNCHANGED << bvars, avars, pvars >>
  \/ RunNextSection /\ UNCHANGED << bvars, avars, pvars >>
  \/ RunCollect /\ UNCHANGED << bvars, avars, pvars >>
  \/ RunAssemble /\ UNCHANGED << bvars, avars, pvars >>
  \/ RunSaveMarkdown /\ UNCHANGED << bvars, avars, pvars >>
  \/ RunSaveDocx /\ UNCHANGED << bvars, avars, pvars >>

SpecGen == InitGen /\ [][NextGen]_vars

\* ------------------------------------------------------------------ DMPGenerator.run
MaxRows == 2

NoTitle == << >>

TitlePool == { << "A" >>, << "A", "?" >>, << "A", "_" >> }

Special == {"\\", "/", "*", "?", ":", "\"", "<", ">", "|"}

\* _clean_filename: re.sub(r'[\\/*?:"<>|]', "_", str(name)).strip()
CleanFilename(name) ==
  Strip([i \in 1..Len(name) |-> IF name[i] \in Special THEN "_" ELSE name[i]])

\* str(i) inside f"dmp_{i}".
Digits == << "0", "1", "2", "3", "4", "5", "6", "7", "8", "9" >>

\* run, line 85: project_info.get("Project_Title", f"dmp_{i}"), cleaned.
FileName(i) ==
  CleanFilename(IF bhasTitle THEN brows[i + 1] ELSE << "d", "m", "p", "_", Digits[i + 1] >>)

\* Path.write_text / convert_file with outputfile: the file of that name is
\* created or replaced.
WriteFile(dir, name, text, row) ==
  { f \in dir : f.name # name } \cup { [name |-> name, text |-> text, row |-> row] }

\* What StrOutputParser hands back when the chain succeeds.
ChainTexts == { << >>, << "a" >> }

\* run, lines 58-63: the two input checks.
BatchStart ==
  /\ bpc = "start"
  /\ IF bexcel = "missing" THEN bpc' = "raised" /\ berr' = "noexcel"
     ELSE IF bexcel = "empty" THEN bpc' = "raised" /\ berr' = "empty"
     ELSE bpc' = "invoke" /\ berr' = berr
  /\ UNCHANGED << bexcel, bhasTitle, brows, bi, btext, bfailed, bmdDir, bdocxDir >>

\* run, lines 79-80: chain.invoke(project_info) returns the text.
BatchInvoke ==
  /\ bpc = "invoke" /\ bi < Len(brows)
  /\ btext' \in ChainTexts
  /\ bpc' = "save_md"
  /\ UNCHANGED << bexcel, bhasTitle, brows, bi, bfailed, bmdDir, bdocxDir, berr >>

\* run without the try around chain.invoke: the failure ends the run.
BatchInvokeFail_Raises ==
  /\ bpc = "invoke" /\ bi < Len(brows)
  /\ bfailed' = bfailed \cup {bi}
  /\ bpc' = "raised" /\ berr' = "generation"
  /\ UNCHANGED << bexcel, bhasTitle, brows, bi, btext, bmdDir, bdocxDir >>

\* run, lines 81-83: chain.invoke raised; the error is logged and the loop
\* goes on with the next row.
BatchInvokeFail ==
  /\ bpc = "invoke" /\ bi < Len(brows)
  /\ bfailed' = bfailed \cup {bi}
  /\ bi' = bi + 1
  /\ UNCHANGED << bexcel, bhasTitle, brows, bpc, btext, bmdDir, bdocxDir, berr >>

\* run, lines 85-87: _save_md.
BatchSaveMd ==
  /\ bpc = "save_md"
  /\ bmdDir' = WriteFile(bmdDir, FileName(bi), btext, bi)
  /\ bpc' = "docx"
  /\ UNCHANGED << bexcel, bhasTitle, brows, bi, btext, bfailed, bdocxDir, berr >>

\* run, line 88: _md_to_docx converted the file; next row.
BatchDocx ==
  /\ bpc = "docx"
  /\ bdocxDir' = WriteFile(bdocxDir, FileName(bi), btext, bi)
  /\ bi' = bi + 1
  /\ bpc' = "invoke"
  /\ UNCHANGED << bexcel, bhasTitle, brows, btext, bfailed, bmdDir, berr >>

\* run, line 88: pypandoc raised (no pandoc, conversion error); nothing
\* catches it, so run raises.
BatchDocxFail ==
  /\ bpc = "docx"
  /\ bpc' = "raised" /\ berr' = "pandoc"
  /\ UNCHANGED << bexcel, bhasTitle, brows, bi, btext, bfailed, bmdDir, bdocxDir >>

\* run, line 76: the rows are exhausted and run returns None.
BatchReturn ==
  /\ bpc = "invoke" /\ bi = Len(brows)
  /\ bpc' = "returned"
  /\ UNCHANGED << bexcel, bhasTitle, brows, bi, btext, bfailed, bmdDir, bdocxDir, berr >>

\* DMPGenerator(excel_input, ...).run() on a sheet of at most MaxRows rows.
InitBatch ==
  /\ NoRun /\ IndexUnused /\ NoAsm /\ NoPre
  /\ bexcel \in {"missing", "empty", "rows"}
  /\ bhasTitle \in BOOLEAN
  /\ IF bexcel = "rows"
       THEN \E n \in 1..MaxRows :
              brows \in [1..n -> IF bhasTitle THEN TitlePool ELSE {NoTitle}]
       ELSE brows = << >> /\ bhasTitle = FALSE
  /\ bpc = "start" /\ bi = 0 /\ btext = << >> /\ bfailed = {}
  /\ bmdDir = {} /\ bdocxDir = {} /\ berr = "none"

NextBatch ==
  \/ BatchStart /\ UNCHANGED << ivars, rvars, avars, pvars >>
  \/ BatchInvoke /\ UNCHANGED << ivars, rvars, avars, pvars >>
  \/ BatchInvokeFail /\ UNCHANGED << ivars, rvars, avars, pvars >>
  \/ BatchSaveMd /\ UNCHANGED << ivars, rvars, avars, pvars >>
  \/ BatchDocx /\ UNCHANGED << ivars, rvars, avars, pvars >>
  \/ BatchDocxFail /\ UNCHANGED << ivars, rvars, avars, pvars >>
  \/ BatchReturn /\ UNCHANGED << ivars, rvars, avars, pvars >>

SpecBatch == InitBatch /\ [][NextBatch]_vars

\* ------------------------------------------------------------------ DMPAssembler
\* Most sections of a dict handed to to_markdown directly.
MaxAsmSecs == 2

\* Most to_markdown calls a caller makes on one input.
MaxAsmCalls == 2

AsmKeyPool == {"access", "data_types", "custom"}

\* The dicts handed to to_markdown: distinct keys, any insertion order.
AsmDicts ==
  { d \in UNION {[1..n -> [k : AsmKeyPool, v : {<< "a" >>}]] : n \in 0..MaxAsmSecs} :
      Injective(Keys(d)) }

OldDocx == DocxOf(OldFile)

aunchanged == << ivars, inputs, loopvars, gvars, result >>

\* to_markdown(sections, project_info): returns the text, touches nothing.
AsmToMarkdown_Cached ==
  /\ caller = "asm" /\ rpc = "asm" /\ Len(aouts) < MaxAsmCalls
  /\ md' = IF aouts = << >> THEN ToMarkdown(sections, info) ELSE md \o << << >> >>
  /\ aouts' = Append(aouts, md')
  /\ UNCHANGED << aunchanged, rpc, mdFile, docxFile, mdWrites, docxWrites, aprev >>

\* to_markdown(sections, project_info), lines 11-23.
AsmToMarkdown ==
  /\ caller = "asm" /\ rpc = "asm" /\ Len(aouts) < MaxAsmCalls
  /\ md' = ToMarkdown(sections, info)
  /\ aouts' = Append(aouts, md')
  /\ UNCHANGED << aunchanged, rpc, mdFile, docxFile, mdWrites, docxWrites, aprev >>

\* save_markdown, lines 27-28: write_text opens out_path for writing, which
\* empties the file.
AsmSaveMdOpen ==
  /\ caller = "asm" /\ rpc = "asm" /\ aouts # << >>
  /\ mdFile' = Truncated
  /\ rpc' = "md_open"
  /\ UNCHANGED << aunchanged, md, docxFile, mdWrites, docxWrites, avars >>

\* save_markdown, line 28: the open fails (no permission); the file is as it was.
AsmSaveMdDenied ==
  /\ caller = "asm" /\ rpc = "asm" /\ aouts # << >>
  /\ rpc' = "md_raised"
  /\ UNCHANGED << aunchanged, md, mdFile, docxFile, mdWrites, docxWrites, avars >>

\* save_markdown, lines 28-29: the text is written and the path returned.
AsmSaveMdWrite ==
  /\ caller = "asm" /\ rpc = "md_open"
  /\ mdFile' = md
  /\ mdWrites' = mdWrites + 1
  /\ rpc' = "md_saved"
  /\ UNCHANGED << aunchanged, md, docxFile, docxWrites, avars >>

\* save_markdown, line 28: the write fails or the process stops part-way
\* (disk full, kill); what was written so far stays in the file.
AsmSaveMdFail ==
  /\ caller = "asm" /\ rpc = "md_open"
  /\ \E n \in 0..(Len(md) - 1) : mdFile' = SubSeq(md, 1, n)
  /\ rpc' = "md_raised"
  /\ UNCHANGED << aunchanged, md, docxFile, mdWrites, docxWrites, avars >>

\* save_docx, lines 33-34 and 45-47: python-docx cannot be imported; None.
AsmSaveDocxNoLib ==
  /\ caller = "asm" /\ rpc \in {"asm", "md_saved"} /\ aouts # << >>
  /\ rpc' = "docx_none"
  /\ UNCHANGED << aunchanged, md, mdFile, docxFile, mdWrites, docxWrites, avars >>

\* save_docx, lines 35-43: the document is built and doc.save opens out_path
\* for writing.
AsmSaveDocxOpen ==
  /\ caller = "asm" /\ rpc \in {"asm", "md_saved"} /\ aouts # << >>
  /\ docxFile' = Truncated
  /\ rpc' = "docx_open"
  /\ UNCHANGED << aunchanged, md, mdFile, mdWrites, docxWrites, avars >>

\* save_docx, lines 43-44: saved, the path is returned.
AsmSaveDocxWrite ==
  /\ caller = "asm" /\ rpc = "docx_open"
  /\ docxFile' = DocxOf(md)
  /\ docxWrites' = docxWrites + 1
  /\ rpc' = "docx_saved"
  /\ UNCHANGED << aunchanged, md, mdFile, mdWrites, avars >>

\* save_docx, lines 43 and 45-47: doc.save fails part-way; the exception is
\* caught and None returned, the file keeps what was written so far.
AsmSaveDocxFail ==
  /\ caller = "asm" /\ rpc = "docx_open"
  /\ \E n \in 0..(Len(md) - 1) : docxFile' = SubSeq(DocxOf(md), 1, n)
  /\ rpc' = "docx_none"
  /\ UNCHANGED << aunchanged, md, mdFile, mdWrites, docxWrites, avars >>

\* A caller holding a sections dict and a project_info uses the assembler.
InitAsm ==
  /\ IndexUnused /\ NoBatch /\ NoPre
  /\ caller = "asm" /\ rpc = "asm"
  /\ secMap = << >> /\ secOrder = << >> /\ topK = 0
  /\ retr = NoRetr /\ gdocs = << >>
  /\ sections \in AsmDicts
  /\ info \in AsmInfos
  /\ genCalls = << >> /\ gpc = "idle" /\ gkey = "" /\ gctx = << >> /\ variables = NoVariables
  /\ gresp = NoResponse /\ gret = << >> /\ gerr = "none" /\ llmCalls = 0
  /\ md = << >> /\ mdWrites = 0 /\ docxWrites = 0 /\ result = NoResult
  /\ mdFile \in {NoFile, OldFile}
  /\ docxFile \in {NoFile, OldDocx}
  /\ aouts = << >>
  /\ aprev = [md |-> mdFile, docx |-> docxFile]

NextAsm ==
  \/ AsmToMarkdown /\ UNCHANGED << bvars, pvars >>
  \/ AsmSaveMdOpen /\ UNCHANGED << bvars, pvars >>
  \/ AsmSaveMdDenied /\ UNCHANGED << bvars, pvars >>
  \/ AsmSaveMdWrite /\ UNCHANGED << bvars, pvars >>
  \/ AsmSaveMdFail /\ UNCHANGED << bvars, pvars >>
  \/ AsmSaveDocxNoLib /\ UNCHANGED << bvars, pvars >>
  \/ AsmSaveDocxOpen /\ UNCHANGED << bvars, pvars >>
  \/ AsmSaveDocxWrite /\ UNCHANGED << bvars, pvars >>
  \/ AsmSaveDocxFail /\ UNCHANGED << bvars, pvars >>

SpecAsm == InitAsm /\ [][NextAsm]_vars

\* ------------------------------------------------------------------ DataIngestion
\* ingest_local_paths calls made on one DataIngestion object.
MaxIngests == 2

\* Longest file_paths list.
MaxPaths == 2

\* _compute_hash: the SHA-256 of the content (no two contents collide).
Hash(content) == << "sha256", content >>

\* The PDF files of the local disk.
PdfFiles == [name : {"a.pdf", "b.pdf"}, content : {1, 2}]

\* What a path of file_paths can be: missing, a file that is not a PDF, a PDF
\* file, or a directory of two PDF files (as rglob lists them).
LocalPaths ==
  {[kind |-> k, files |-> << >>] : k \in {"missing", "other"}}
    \cup {[kind |-> "pdf", files |-> << f >>] : f \in PdfFiles}
    \cup {[kind |-> "dir", files |-> << [name |-> "a.pdf", content |-> 1],
                                       [name |-> "b.pdf", content |-> c] >>] : c \in {1, 2}}

PathLists == UNION {[1..n -> LocalPaths] : n \in 0..MaxPaths}

\* _copy_if_new, lines 173-179: the manifest entry of a copied file.
Entry(name) == [filename |-> name, source |-> "local", session |-> "s1"]

\* The entry a file ingested by an earlier session has in manifest.json.
OldEntry == [filename |-> "old.pdf", source |-> "local", session |-> "s0"]

\* shutil.copy2(src, raw_dir / src.name): a file of that name is replaced.
CopyTo(dir, f) == { g \in dir : g.name # f.name } \cup {f}

\* _copy_if_new that registers a file whatever its hash.
CopyIfNew_NoDedup(st, f, hashOk, copyOk) ==
  IF ~hashOk \/ ~copyOk THEN st
  ELSE [m |-> DictSet(st.m, Hash(f.content), Entry(f.name)),
        r |-> CopyTo(st.r, f),
        a |-> Append(st.a, f.name)]

\* _copy_if_new(src): None when hashing fails, when the hash is a key of the
\* manifest, or when the copy fails; else the file is copied, registered
\* under its hash and returned.  st is [m: manifest, r: raw_dir, a: added_files].
CopyIfNew(st, f, hashOk, copyOk) ==
  IF ~hashOk THEN st
  ELSE IF Has(st.m, Hash(f.content)) THEN st
  ELSE IF ~copyOk THEN st
  ELSE [m |-> DictSet(st.m, Hash(f.content), Entry(f.name)),
        r |-> CopyTo(st.r, f),
        a |-> Append(st.a, f.name)]

\* Lines 103-111: _copy_if_new for the PDF, or for each PDF of the directory.
RECURSIVE CopyAll(_, _, _)
CopyAll(st, fs, oks) ==
  IF fs = << >> THEN st
  ELSE CopyAll(CopyIfNew(st, Head(fs), Head(oks).hash, Head(oks).copy), Tail(fs), Tail(oks))

\* ingest_local_paths(file_paths) is called.
IngestCall ==
  /\ npc = "idle" /\ ncalls < MaxIngests
  /\ file_paths' \in PathLists
  /\ added_files' = << >> /\ ni' = 1 /\ npc' = "loop"
  /\ ncalls' = ncalls + 1
  /\ UNCHANGED << manifest, raw_dir, manifestFile, summary >>

\* Lines 97-113: one path of the list.
IngestPath ==
  /\ npc = "loop" /\ ni <= Len(file_paths)
  /\ LET fs == file_paths[ni].files IN
       \E oks \in [1..Len(fs) -> [hash : BOOLEAN, copy : BOOLEAN]] :
         LET st == CopyAll([m |-> manifest, r |-> raw_dir, a |-> added_files], fs, oks) IN
           /\ manifest' = st.m /\ raw_dir' = st.r /\ added_files' = st.a
  /\ ni' = ni + 1
  /\ UNCHANGED << file_paths, npc, ncalls, manifestFile, summary >>

\* Line 115, _finalize_session: the manifest is saved and the summary
\* returned; a failed save raises.
IngestFinalize ==
  /\ npc = "loop" /\ ni > Len(file_paths)
  /\ \E saved \in BOOLEAN :
       IF saved
         THEN manifestFile' = manifest /\ summary' = added_files /\ npc' = "idle"
         ELSE npc' = "raised" /\ UNCHANGED << manifestFile, summary >>
  /\ file_paths' = << >> /\ ni' = 0
  /\ UNCHANGED << manifest, raw_dir, added_files, ncalls >>

\* DataIngestion(): raw_pdfs of a new session is empty; _load_manifest gives
\* an empty manifest or the one an earlier session saved.
InitIngest ==
  /\ NoRun /\ IndexUnused /\ NoBatch /\ NoAsm /\ NoChunk /\ NoCrawl
  /\ \E old \in {<< >>, << [k |-> Hash(1), v |-> OldEntry] >>} :
       manifest = old /\ manifestFile = old
  /\ file_paths = << >> /\ npc = "idle" /\ ni = 0 /\ raw_dir = {}
  /\ added_files = << >> /\ ncalls = 0 /\ summary = << >>

NextIngest ==
  \/ IngestCall /\ UNCHANGED << ivars, rvars, bvars, avars, cvars, wvars >>
  \/ IngestPath /\ UNCHANGED << ivars, rvars, bvars, avars, cvars, wvars >>
  \/ IngestFinalize /\ UNCHANGED << ivars, rvars, bvars, avars, cvars, wvars >>

SpecIngest == InitIngest /\ [][NextIngest]_vars

\* ------------------------------------------------------------------ TextChunker
\* Most words of a text.
MaxWords == 3

\* Largest chunk_size and overlap tried; the constructor takes any integers.
MaxSize == 3

ChunkParams == (0 - 1)..MaxSize

Min(a, b) == IF a < b THEN a ELSE b

\* words[lo:hi] of Python: a negative index counts from the end, indexes
\* beyond the ends are clipped.
PySlice(ws, lo, hi) ==
  LET n == Len(ws)
      clip(x) == IF x < 0 THEN (IF x + n < 0 THEN 0 ELSE x + n) ELSE Min(x, n)
  IN IF clip(lo) >= clip(hi) THEN << >> ELSE SubSeq(ws, clip(lo) + 1, clip(hi))

\* chunk_text, the body of the while loop.  A loop that ends makes at most
\* one chunk per word; the exploration of one that does not end stops once
\* it has made more.
ChunkStep ==
  /\ cpc = "loop" /\ start < Len(words)
  /\ Len(chunks) <= Len(words)
  /\ LET end == Min(start + chunk_size, Len(words)) IN
       chunks' = Append(chunks, PySlice(words, start, end))
  /\ start' = start + (chunk_size - overlap)
  /\ UNCHANGED << words, chunk_size, overlap, cpc >>

\* chunk_text: the while condition fails and chunks is returned.
ChunkReturn ==
  /\ cpc = "loop" /\ ~(start < Len(words))
  /\ cpc' = "done"
  /\ UNCHANGED << words, chunk_size, overlap, start, chunks >>

\* TextChunker(base_dir, chunk_size, overlap).chunk_text(text): the words of
\* the text are numbered.
InitChunk ==
  /\ NoRun /\ IndexUnused /\ NoBatch /\ NoAsm /\ NoIngest /\ NoCrawl
  /\ \E n \in 0..MaxWords : words = [i \in 1..n |-> i]
  /\ chunk_size \in ChunkParams /\ overlap \in ChunkParams
  /\ start = 0 /\ chunks = << >> /\ cpc = "loop"

NextChunk ==
  \/ ChunkStep /\ UNCHANGED << ivars, rvars, bvars, avars, nvars, wvars >>
  \/ ChunkReturn /\ UNCHANGED << ivars, rvars, bvars, avars, nvars, wvars >>

SpecChunk == InitChunk /\ [][NextChunk]_vars

\* The loop keeps running while it can.
SpecChunkFair == SpecChunk /\ WF_vars(NextChunk)

\* ------------------------------------------------------------------ _crawl_nih
\* Pages of the site; page 1 is start_url.
MaxUrls == 2

\* Largest max_depth tried.
MaxDepth == 1

Pages == 1..MaxUrls

\* The one PDF of the site.
PdfUrl == 0

\* A site: the pages each page links to, the pages that link to the PDF, and
\* whether the PDF is on the nih.gov host.
Webs == [links : [Pages -> SUBSET Pages], pdf : SUBSET Pages, pdfInternal : BOOLEAN]

\* The members of a set of URLs in the order of the page.
RECURSIVE Ordered(_)
Ordered(S) ==
  IF S = {} THEN << >>
  ELSE LET x == CHOOSE y \in S : \A z \in S : y <= z IN << x >> \o Ordered(S \ {x})

\* soup.find_all("a", href=True) of a page: its page links, then the PDF link.
Anchors(u) ==
  Ordered(web.links[u]) \o (IF u \in web.pdf THEN << PdfUrl >> ELSE << >>)

\* Lines 360-363: the links followed are those on nih.gov not yet visited,
\* queued one level deeper.
RECURSIVE Follow(_, _, _)
Follow(as, seen, depth) ==
  IF as = << >> THEN << >>
  ELSE LET href == Head(as)
           internal == href # PdfUrl \/ web.pdfInternal
       IN (IF internal /\ href \notin seen THEN << [url |-> href, depth |-> depth + 1] >>
           ELSE << >>) \o Follow(Tail(as), seen, depth)

\* Line 324, the while condition.
CrawlGoesOn == queue # << >> /\ Cardinality(visited) < max_pages

\* Lines 325-327: the popped URL was visited or lies too deep.
CrawlSkip ==
  /\ wpc = "loop" /\ CrawlGoesOn
  /\ Head(queue).url \in visited \/ Head(queue).depth > max_depth
  /\ queue' = Tail(queue)
  /\ UNCHANGED << web, max_pages, max_depth, visited, fetches, wfiles, wsaved, saves,
                  wpc >>

\* Lines 328-368: the popped URL is fetched.  The request fails, or returns
\* something that is not HTML (the PDF does), or a page: its text is stored
\* when it is new, the PDF it links to is downloaded, its links are queued.
CrawlFetch ==
  /\ wpc = "loop" /\ CrawlGoesOn
  /\ LET url == Head(queue).url
         depth == Head(queue).depth IN
       /\ url \notin visited /\ depth <= max_depth
       /\ visited' = visited \cup {url}
       /\ \E got \in {"error", "other", "html"} : \E newText, newPdf \in BOOLEAN :
            IF got # "html" \/ url = PdfUrl
              THEN /\ fetches' = Append(fetches, [url |-> url, depth |-> depth])
                   /\ queue' = Tail(queue)
                   /\ wfiles' = wfiles
              ELSE /\ fetches' = Append(fetches, [url |-> url, depth |-> depth])
                                   \o (IF url \in web.pdf
                                         THEN << [url |-> PdfUrl, depth |-> depth + 1] >>
                                         ELSE << >>)
                   /\ wfiles' = wfiles \cup (IF newText THEN {url} ELSE {})
                                       \cup (IF url \in web.pdf /\ newPdf THEN {PdfUrl} ELSE {})
                   /\ queue' = Tail(queue) \o Follow(Anchors(url), visited', depth)
  /\ UNCHANGED << web, max_pages, max_depth, wsaved, saves, wpc >>

\* Line 369 and _save_manifest: the loop is over and the manifest is saved;
\* _save_manifest prints and swallows what its writes raise.
CrawlSave ==
  /\ wpc = "loop" /\ ~CrawlGoesOn
  /\ saves' = saves + 1
  /\ \E written \in BOOLEAN : wsaved' = IF written THEN [written |-> TRUE, files |-> wfiles] ELSE wsaved
  /\ wpc' = "done"
  /\ UNCHANGED << web, max_pages, max_depth, visited, queue, fetches, wfiles >>

\* _crawl_nih(start_url, domain) on a new session folder.
InitCrawl ==
  /\ NoRun /\ IndexUnused /\ NoBatch /\ NoAsm /\ NoIngest /\ NoChunk
  /\ web \in Webs
  /\ max_pages \in 0..(MaxUrls + 1) /\ max_depth \in 0..MaxDepth
  /\ visited = {} /\ queue = << [url |-> 1, depth |-> 0] >>
  /\ fetches = << >> /\ wfiles = {} /\ wsaved = NotSaved /\ saves = 0 /\ wpc = "loop"

NextCrawl ==
  \/ CrawlSkip /\ UNCHANGED << ivars, rvars, bvars, avars, nvars, cvars >>
  \/ CrawlFetch /\ UNCHANGED << ivars, rvars, bvars, avars, nvars, cvars >>
  \/ CrawlSave /\ UNCHANGED << ivars, rvars, bvars, avars, nvars, cvars >>

SpecCrawl == InitCrawl /\ [][NextCrawl]_vars

\* The loop keeps running while it can.
SpecCrawlFair == SpecCrawl /\ WF_vars(NextCrawl)

\* ------------------------------------------------------------------ index claims
RECURSIVE SumSeq(_)
SumSeq(s) == IF s = << >> THEN 0 ELSE Head(s) + SumSeq(Tail(s))

Finished(p) == Len(outcome[p])

C2_RebuildPolicy ==
  \A p \in Procs :
    prog[p] \in {"run", "web"} =>
      \A i \in 1..Len(path[p]) :
        /\ flag[p] => path[p][i] = "build"
        /\ (flag[p] /\ Finished(p) >= i /\ outcome[p][i] = "ok") => embeds[p][i] = 1
        /\ (~flag[p] /\ atCheck[p][i] = "valid") =>
             (path[p][i] = "load" /\ embeds[p][i] = 0)

\* C2 witness: over a valid artifact one runner rebuilt because of the flag
\* and another one, without the flag, loaded.
C2_Witness ==
  \E p, q \in Procs :
    /\ prog[p] = "run" /\ flag[p] /\ Finished(p) >= 1
    /\ atCheck[p][1] = "valid" /\ path[p][1] = "build" /\ outcome[p][1] = "ok"
    /\ prog[q] = "run" /\ ~flag[q] /\ Finished(q) >= 1
    /\ atCheck[q][1] = "valid" /\ path[q][1] = "load" /\ outcome[q][1] = "ok"

\* C3 (as claimed): callers of the same location are serialized, so without a
\* rebuild flag and without a corpus change the corpus is embedded at most
\* once and the artifact is written by at most one caller.
C3_Serialized ==
  (nChanges = 0 /\ \A p \in Procs : prog[p] \in {"lob", "run", "off"} /\ ~flag[p]) =>
    /\ SumSeq(embeds[1]) + SumSeq(embeds[2]) <= 1
    /\ Cardinality(writers) <= 1

\* C4 (as claimed): when no save is in progress the two files describe the
\* same chunk set; a check that finds one file without the other never takes
\* the build path as if there were no index (unless a rebuild was asked for);
\* a handle returned by a load holds both parts.
C4_PartialIsCorruption ==
  /\ (\A p \in Procs : ipc[p] = "idle") => DiskShape \in {"empty", "valid"}
  /\ \A p \in Procs : \A i \in 1..Len(path[p]) :
       /\ (~flag[p] /\ atCheck[p][i] = "partial") => path[p][i] = "load"
       /\ (Finished(p) >= i /\ outcome[p][i] = "ok") =>
            (vstore[p].index # None /\ vstore[p].meta # None)

\* ------------------------------------------------------------------ generation claims
\* C5: a text returned by generate_section is never empty or blank: it is
\* the stripped, non-empty text of the model, or the placeholder of its key;
\* so is every text collected into the sections dict.
C5_NeverEmptyText ==
  /\ gpc = "ret" =>
       /\ gret # << >> /\ Strip(gret) # << >>
       /\ \/ gret = Placeholder(gkey)
          \/ /\ gresp.kind \in {"msg", "plain"}
             /\ \E i, j \in 1..Len(gresp.val) :
                  /\ gret = SubSeq(gresp.val, i, j)
                  /\ ~IsSpace(gresp.val[i]) /\ ~IsSpace(gresp.val[j])
                  /\ \A n \in 1..Len(gresp.val) : (n < i \/ n > j) => IsSpace(gresp.val[n])
  /\ \A i \in 1..Len(sections) : sections[i].v # << >> /\ Strip(sections[i].v) # << >>

\* C5 witness: the model answered with blanks only and the placeholder came back.
C5_Witness ==
  /\ caller = "one" /\ gpc = "ret"
  /\ gresp = [kind |-> "msg", val |-> << " ", " " >>]
  /\ gret = Placeholder(gkey)

\* C6: once the model has raised inside a section of run_rag_dmp, the run
\* does nothing but raise: it writes neither the markdown nor the docx file
\* and returns no result.
C6_FailFast ==
  (caller = "run" /\ gerr = "llm") =>
    /\ mdWrites = 0 /\ docxWrites = 0 /\ md = << >>
    /\ result = NoResult
    /\ rpc \in {"loop", "raised"}
    /\ rpc = "loop" => gpc = "raised"

\* C6 witness: the model raised on "oversight", the last of the five default
\* sections, after four sections were generated, and the run raised.
C6_Witness ==
  /\ caller = "run" /\ rpc = "raised" /\ gerr = "llm"
  /\ Keys(secMap) = DefaultOrder /\ gkey = "oversight"
  /\ Len(sections) = 4 /\ mdWrites = 0

\* C7: a failure of the model call is never swallowed: wherever the model
\* is invoked, a failed call ends the caller with an error and never with a
\* normal return.
C7_NeverSwallowed ==
  /\ gerr = "llm" => (rpc # "returned" /\ result = NoResult)
  /\ bfailed # {} => bpc # "returned"

MissingKey(k) == ~Has(secMap, k) \/ Get(secMap, k) \notin Registry

\* C8: a section without a prompt is fatal.  generate_section raises for it,
\* no section is generated after it, and no result or document comes out; a
\* run whose map names a prompt outside the registry generates no section.
C8_MissingPromptFatal ==
  /\ \A i \in 1..(Len(genCalls) - 1) : ~MissingKey(genCalls[i])
  /\ (genCalls # << >> /\ MissingKey(genCalls[Len(genCalls)])) =>
       /\ gpc \in {"retrieve", "prompt", "raised"}
       /\ gpc = "raised" => gerr \in {"nomap", "noprompt", "search"}
       /\ result = NoResult /\ mdWrites = 0 /\ docxWrites = 0
       /\ rpc \in {"loop", "raised", "one"}
       /\ rpc = "loop" => gpc # "idle"
  /\ (caller = "run" /\ MissingPrompts(secMap) # {}) =>
       /\ genCalls = << >> /\ result = NoResult /\ mdWrites = 0
       /\ rpc \in {"start", "index", "raised"}

\* C8 witness: generate_dmp raised at an unmapped key and left the rest of
\* section_order ungenerated.
C8_Witness ==
  /\ caller = "dmp" /\ rpc = "raised" /\ gerr = "nomap"
  /\ Len(genCalls) < Len(DmpOrder)
  /\ result = NoResult

IsPrefix(a, b) == Len(a) <= Len(b) /\ a = SubSeq(b, 1, Len(a))

\* C9: in run_rag_dmp the index is built or loaded once and has returned a
\* handle before the first generate_section call; the calls follow the keys
\* of the section map, one per key; the markdown is assembled and the files
\* are written only after the last section was collected.
C9_RunOrder ==
  caller = "run" =>
    /\ calls[1] <= 1
    /\ rpc # "start" => calls[1] = 1
    /\ genCalls # << >> => (ipc[1] = "idle" /\ outcome[1] = << "ok" >>)
    /\ IsPrefix(genCalls, Keys(secMap))
    /\ IsPrefix(Keys(sections), genCalls)
    /\ (rpc \in {"assemble", "save_md", "save_docx", "returned"}
          \/ md # << >> \/ mdWrites > 0 \/ docxWrites > 0) =>
         /\ genCalls = Keys(secMap) /\ Keys(sections) = Keys(secMap)
         /\ gpc = "idle"
    /\ mdWrites <= 1 /\ docxWrites <= mdWrites
    /\ mdWrites = 1 => md # << >>

\* C9 witness: a run built the index, generated the five default sections
\* and wrote both files.
C9_Witness ==
  /\ caller = "run" /\ rpc = "returned"
  /\ path[1] = << "build" >> /\ genCalls = DefaultOrder
  /\ mdWrites = 1 /\ docxWrites = 1

\* C10: the section headings of the assembled and of the written markdown
\* are those of the keys of the caller's section map, in its order.
C10_MarkdownOrder ==
  caller = "run" =>
    LET want == [i \in 1..Len(secMap) |-> Heading(secMap[i].k)] IN
      /\ md # << >> => HeadingsOf(md) = want
      /\ mdWrites > 0 => HeadingsOf(mdFile) = want

\* C10 witness: a section map whose order is not the default one was written.
C10_Witness ==
  /\ caller = "run" /\ mdWrites = 1
  /\ Keys(secMap) = << "access", "data_types" >>
  /\ HeadingsOf(mdFile) = << "Access", "Data Types" >>

\* ------------------------------------------------------------------ assembler claims
\* The title a caller supplied, under either key the generator reads it from.
SuppliedTitle(inf) ==
  IF inf.project_title # Absent THEN inf.project_title
  ELSE IF inf.title # Absent THEN inf.title
  ELSE "Research Project"

HasLine(out, line) == \E i \in 1..Len(out) : out[i] = line

\* C11: to_markdown renders the title line from the project's title, or the
\* default title when none is supplied; a PI line and an institution line,
\* each present exactly when project_info has that field; then one heading
\* and body per section.
C11_Rendering ==
  (caller = "asm" /\ aouts # << >>) =>
    LET out == aouts[1] IN
      /\ out[1] = << "# ", "DMP: ", SuppliedTitle(info) >>
      /\ HasLine(out, << "**PI:** ", info.pi_name >>) <=> info.pi_name # Absent
      /\ HasLine(out, << "**Institution:** ", info.institution >>)
           <=> info.institution # Absent
      /\ HeadingsOf(out) = [i \in 1..Len(sections) |-> Heading(sections[i].k)]
      /\ \A i \in 1..Len(out) :
           IsHeading(out[i]) =>
             \E n \in 1..Len(sections) :
               /\ out[i][2] = Heading(sections[n].k)
               /\ i < Len(out) /\ out[i + 1] = sections[n].v

C13_SaveAtomic ==
  caller = "asm" =>
    /\ mdFile \in {aprev.md, md}
    /\ docxFile \in {aprev.docx, DocxOf(md)}

\* C14: a run that returns has written the markdown file, whatever became
\* of the docx export; a failed export still lets the run return, with
\* docx_path None; docx_path is set only when the docx file was saved; and a
\* run raises only before anything was written.
C14_DocxBestEffort ==
  caller = "run" =>
    /\ rpc = "returned" =>
         /\ result.kind = "dict"
         /\ mdWrites = 1 /\ mdFile = md /\ md # << >>
         /\ result.docx <=> docxWrites = 1
         /\ result.docx => docxFile = DocxOf(md)
    /\ rpc = "save_docx" => mdWrites = 1
    /\ rpc = "raised" => (mdWrites = 0 /\ docxWrites = 0 /\ result = NoResult)

\* C14 witness: the export failed and the run returned with the markdown
\* written and docx_path None.
C14_Witness ==
  /\ caller = "run" /\ rpc = "returned"
  /\ ~result.docx /\ docxWrites = 0 /\ docxFile = NoFile
  /\ mdWrites = 1 /\ mdFile = md

\* ------------------------------------------------------------------ more index claims
\* C15: a build over an empty chunk sequence (no chunk file, or only files
\* with empty arrays) ends in an error: it embeds nothing, hands out no new
\* handle and writes no index file; so nothing is ever saved from an empty
\* document list.
C15_EmptyCorpusRejected ==
  /\ [](\A p \in Procs : ipc[p] \in {"save_faiss", "save_pkl"} => docs[p] # << >>)
  /\ [][\A p \in Procs :
          /\ (ipc[p] = "glob" /\ ipc'[p] # "glob" /\ Docs(corpus) = << >>) =>
                /\ \/ ipc'[p] = "idle" /\ outcome'[p] = Append(outcome[p], "error")
                   \/ ipc'[p] = "embed" /\ docs'[p] = << >> /\ outcome' = outcome
                /\ faiss' = faiss /\ pkl' = pkl /\ writers' = writers
                /\ vstore' = vstore /\ embeds' = embeds
          /\ (ipc[p] = "embed" /\ ipc'[p] # "embed" /\ docs[p] = << >>) =>
                /\ ipc'[p] = "idle" /\ outcome'[p] = Append(outcome[p], "error")
                /\ faiss' = faiss /\ pkl' = pkl /\ writers' = writers
                /\ vstore' = vstore /\ embeds' = embeds]_vars

\* C15 witness: the only chunk file holds an empty array; the build of an
\* empty index directory failed and left it empty.
C15_Witness ==
  \E p \in Procs :
    /\ corpus = << << >> >> /\ nChanges = 0
    /\ path[p] = << "build" >> /\ outcome[p] = << "error" >>
    /\ embeds[p] = << 0 >> /\ docs[p] = << >>
    /\ faiss = None /\ pkl = None /\ writers = {}

\* ------------------------------------------------------------------ retrieval claims
\* A retrieval of the last generate_section call has returned.
Retrieved ==
  /\ genCalls # << >>
  /\ Len(genCalls) > 1 \/ gpc # "retrieve"
  /\ gerr # "search"

\* The chunks of a context string.
ChunksIn(ctx) == (Len(ctx) + 1) \div 2

\* C16: the retriever made by get_retriever(k), k > 0, returns at most k
\* chunks of the index, each once, and fewer than k only when the index
\* holds fewer than k; the context of a section has at most top_k chunks.
C16_AtMostK ==
  (retr.kind = "faiss" /\ retr.asked > 0 /\ Retrieved) =>
    LET n == Len(retr.store.index) IN
      /\ Len(gdocs) <= retr.asked
      /\ Len(gdocs) < retr.asked => (n < retr.asked /\ Len(gdocs) = n)
      /\ Injective(gdocs)
      /\ \A i \in 1..Len(gdocs) : \E j \in 1..n : gdocs[i] = retr.store.meta[j]
      /\ topK > 0 => ChunksIn(gctx) <= topK

\* C16 witness: a run with top_k 1 over an index of two chunks retrieved one
\* chunk for its last section and returned.
C16_Witness ==
  /\ caller = "run" /\ rpc = "returned"
  /\ retr.asked = 1 /\ Len(retr.store.index) = 2
  /\ Len(gdocs) = 1 /\ ChunksIn(gctx) = 1

\* C17: k <= 0 is rejected: a generate_section call whose retriever was asked
\* for with k <= 0, or whose top_k is <= 0, ends in an error at retrieval; it
\* does not go on with a default k nor with a cut or empty context.
C17_NonPositiveKRejected ==
  (retr.kind = "faiss" /\ (retr.asked <= 0 \/ topK <= 0)) =>
    /\ gpc \in {"idle", "retrieve", "raised"}
    /\ gpc = "raised" => gerr = "search"
    /\ llmCalls = 0

\* The handle build_from_chunks returned for the documents ds.
BuiltFrom(ds) == [index |-> ds, meta |-> ds]

\* Two handles answer every query alike: the same vectors, hence the same
\* ranking, and the same document for each ranked vector, for every k.
SameSearch(a, b) ==
  /\ a.index = b.index
  /\ \A k \in 1..(Len(a.index) + 1) :
       LET n == Len(a.index)
           m == IF k < n THEN k ELSE n IN
         \A x \in Rankings(n, m) : Lookup(a, x) = Lookup(b, x)

C19_LoadNeverSeesPartial ==
  \A p \in Procs :
    /\ \A i \in 1..Len(atCheck[p]) : atCheck[p][i] \notin {"partial", "mismatch"}
    /\ \A i \in 1..Len(outcome[p]) : path[p][i] = "load" => outcome[p][i] = "ok"
    /\ vstore[p].index = vstore[p].meta

\* C20 (as claimed): an index is never loaded with another embedding model
\* than the one that produced it: whenever a caller's last call took the load
\* path and returned a handle, the model of its embeddings object is the
\* model that produced the vectors it read.
C20_ModelMismatchRefused ==
  \A p \in Procs :
    ( /\ ipc[p] = "idle" /\ outcome[p] # << >>
      /\ path[p][Len(path[p])] = "load" /\ outcome[p][Len(outcome[p])] = "ok" ) =>
      emb[p] = vecBy[p]

\* C21 (as claimed): a run_rag_dmp in which the model raised on "oversight",
\* the last of the five default sections, does not raise: it goes on to
\* assemble, and what it returns holds the four generated sections with the
\* markdown file written once, "oversight" left out of it.
C21_SkipAndContinue ==
  (caller = "run" /\ gerr = "llm" /\ Keys(secMap) = DefaultOrder /\ gkey = "oversight") =>
    /\ rpc # "raised"
    /\ rpc = "returned" =>
         /\ Keys(result.sections) = SubSeq(DefaultOrder, 1, 4)
         /\ mdWrites = 1 /\ mdFile = ToMarkdown(result.sections, info)

\* C22: an empty retrieval is not an error.  When the retriever returned no
\* chunk, the context is the empty string, the call goes on to the prompt
\* lookup and, the prompt found, to the one model call; it raises only for a
\* missing prompt or a failure of the model call or of the postprocessing.
C22_EmptyRetrievalContinues ==
  (Retrieved /\ gpc # "retrieve" /\ retr.kind # "none" /\ gdocs = << >>) =>
    /\ gctx = << >>
    /\ gpc = "raised" => gerr \in {"nomap", "noprompt", "llm", "strip"}
    /\ (gpc = "raised" /\ gerr \in {"nomap", "noprompt"}) => MissingKey(gkey)
    /\ gpc \in {"post", "ret"} \/ (gpc = "raised" /\ gerr \in {"llm", "strip"}) =>
         llmCalls = 1
    /\ gpc = "ret" => gret # << >>

\* C22 witness: generate_section, its retriever having found nothing,
\* called the model and returned the model's text.
C22_Witness ==
  /\ caller = "one" /\ retr.kind = "other" /\ gdocs = << >> /\ gctx = << >>
  /\ gpc = "ret" /\ llmCalls = 1 /\ gresp.kind = "msg" /\ gret = Strip(gresp.val)

\* The prompt of the last generate_section call has been filled.
Filled == gpc \in {"invoke", "post", "ret"} \/ (gpc = "raised" /\ gerr \in {"llm", "strip"})

\* C23: for a positive top_k the context is the page contents of the first
\* top_k retrieved chunks (all of them when fewer were retrieved), in the
\* order retrieved, with a double newline between neighbours; the template is
\* filled with the variables project_info, context and section_name and no
\* other, the context among them being that string.
C23_ContextAndVariables ==
  /\ (Retrieved /\ gpc \notin {"idle", "retrieve"} /\ topK > 0) =>
       LET m == IF topK < Len(gdocs) THEN topK ELSE Len(gdocs) IN
         /\ Len(gctx) = IF m = 0 THEN 0 ELSE 2 * m - 1
         /\ \A i \in 1..m : gctx[2 * i - 1] = PageContent(gdocs[i])
         /\ \A i \in 1..(m - 1) : gctx[2 * i] = "\n\n"
  /\ Filled =>
       /\ DOMAIN variables = {"project_info", "context", "section_name"}
       /\ variables.context = gctx
       /\ variables.project_info = info
       /\ variables.section_name = SectionName(gkey)

\* C23 witness: three chunks were asked for, the two of the index were
\* retrieved, second chunk first, and the prompt was filled with both.
C23_Witness ==
  /\ topK = 3 /\ Len(gdocs) = 2 /\ gdocs[1].text = 2 /\ gdocs[2].text = 1
  /\ gpc = "invoke"
  /\ variables.context = << "c2", "\n\n", "c1" >>

\* C24: one generate_section call calls the model at most once and never
\* again after a failure.  The model has been called at most once per
\* generate_section call, not yet by a call that has not passed its invoke
\* step; each model call is the invoke step of a call, which leaves that step
\* for good, to the postprocessing or to the error; a failed model call ends
\* the call.
C24_AtMostOneModelCall ==
  /\ [](/\ llmCalls <= Len(genCalls)
        /\ gpc \in {"retrieve", "prompt", "invoke"} => llmCalls < Len(genCalls)
        /\ gerr = "llm" => gpc = "raised")
  /\ [][/\ llmCalls' # llmCalls =>
             /\ llmCalls' = llmCalls + 1
             /\ gpc = "invoke" /\ gpc' \in {"post", "raised"}
             /\ genCalls' = genCalls
        /\ gpc' = "invoke" => gpc \in {"prompt", "invoke"}
        /\ (gpc = "raised" /\ gerr = "llm") => (gpc' = gpc /\ llmCalls' = llmCalls)]_vars

\* C24 witness: generate_section called the model once, the call failed and
\* the section raised.
C24_Witness ==
  /\ caller = "one" /\ gpc = "raised" /\ gerr = "llm" /\ llmCalls = 1

\* C26 (as claimed): without rebuild_index, run_rag_dmp decides as
\* load_or_build would on the files it finds: it takes the load path exactly
\* when _index_exists holds, that is when both files are there.
C26_RunnerDecidesAsIndexer ==
  \A p \in Procs : \A i \in 1..Len(path[p]) :
    (prog[p] = "run" /\ ~flag[p]) =>
      ( path[p][i] = "load" <=>
          IndexExists(atCheck[p][i] # "empty", atCheck[p][i] \in {"valid", "mismatch"}) )

\* C27: for a key without a prompt (no mapping, or a prompt outside the
\* registry) generate_section raises at the prompt lookup, which it reaches
\* only from the retrieval, and the model is not called for that key: the
\* call never gets to the invoke step and the count of model calls stays
\* below the count of generate_section calls.
C27_NoModelCallWithoutPrompt ==
  /\ []((genCalls # << >> /\ gpc # "idle" /\ MissingKey(gkey)) =>
          /\ gpc \in {"retrieve", "prompt", "raised"}
          /\ llmCalls < Len(genCalls)
          /\ gerr \notin {"llm", "strip"})
  /\ [](gerr \in {"nomap", "noprompt"} =>
          /\ gpc = "raised" /\ MissingKey(gkey)
          /\ retr.kind = "faiss" => (retr.k > 0 /\ gdocs # << >>))
  /\ [][/\ (gerr' # gerr /\ gerr' \in {"nomap", "noprompt"}) =>
             (gpc = "prompt" /\ llmCalls' = llmCalls /\ gdocs' = gdocs)
        /\ (gpc' = "prompt" /\ gpc # "prompt") => gpc = "retrieve"]_vars

\* C27 witness: generate_section retrieved two chunks for a key that has no
\* mapping and raised without a model call.
C27_Witness ==
  /\ caller = "one" /\ retr.kind = "faiss" /\ Len(gdocs) = 2
  /\ gpc = "raised" /\ gerr = "nomap" /\ llmCalls = 0

\* ------------------------------------------------------------------ batch claims
\* C28: in DMPGenerator.run a row whose generation failed is skipped and the
\* loop goes on.  No file of either directory comes from a failed row; the
\* failure moves the loop to the next row and never ends the run, which
\* returns only when every row has been taken; a docx file is written only
\* for a row whose markdown file is there, written in the step before.
C28_BatchSkipAndContinue ==
  /\ [](/\ \A f \in bmdDir \cup bdocxDir : f.row \notin bfailed
        /\ bpc = "raised" => berr \in {"noexcel", "empty", "pandoc"}
        /\ bpc = "returned" => bi = Len(brows)
        /\ \A f \in bdocxDir : \E g \in bmdDir : g.name = f.name /\ g.row >= f.row)
  /\ [][/\ bfailed' # bfailed =>
             /\ bi' = bi + 1 /\ bpc' = "invoke"
             /\ bmdDir' = bmdDir /\ bdocxDir' = bdocxDir
        /\ bdocxDir' # bdocxDir =>
             /\ bpc = "docx" /\ bmdDir' = bmdDir
             /\ [name |-> FileName(bi), text |-> btext, row |-> bi] \in bmdDir]_vars

\* C28 witness: of two rows the first failed and the second was written in
\* both formats; run returned.
C28_Witness ==
  /\ bpc = "returned" /\ Len(brows) = 2 /\ bfailed = {0}
  /\ \E f \in bmdDir : f.row = 1
  /\ \E f \in bdocxDir : f.row = 1

\* ------------------------------------------------------------------ ingestion claims
KeySet(d) == { d[i].k : i \in 1..Len(d) }

\* C25: ingestion deduplicates by content hash.  No step changes or drops an
\* entry the manifest holds.  In a step of ingest_local_paths over one path:
\* a path that is missing (or no PDF) changes nothing and raises nothing; when
\* every file of the path has a hash that is a key of the manifest, nothing
\* is copied, counted or registered; whatever is copied into raw_pdfs has a
\* hash that was no key, and added_files grows by exactly the new keys.
C25_DedupByHash ==
  /\ [][\A h \in KeySet(manifest) : Has(manifest', h) /\ Get(manifest', h) = Get(manifest, h)]_vars
  /\ [][(npc = "loop" /\ ni' = ni + 1) =>
          LET fs == file_paths[ni].files IN
            /\ npc' = "loop"
            /\ file_paths[ni].kind \in {"missing", "other"} =>
                 UNCHANGED << manifest, raw_dir, added_files >>
            /\ (\A j \in 1..Len(fs) : Hash(fs[j].content) \in KeySet(manifest)) =>
                 UNCHANGED << manifest, raw_dir, added_files >>
            /\ \A f \in raw_dir' \ raw_dir : Hash(f.content) \notin KeySet(manifest)
            /\ Len(added_files') - Len(added_files) = Len(manifest') - Len(manifest)
            /\ \A j \in (Len(added_files) + 1)..Len(added_files') :
                 \E i \in 1..Len(fs) :
                   /\ fs[i].name = added_files'[j]
                   /\ Hash(fs[i].content) \notin KeySet(manifest)]_vars

\* C25 witness: the second call was given a missing path and a PDF whose
\* content the first call had ingested under another name; both paths were
\* passed with nothing added and the directory holding the first copy only.
C25_Witness ==
  /\ ncalls = 2 /\ npc = "loop" /\ ni = 3
  /\ file_paths = << [kind |-> "missing", files |-> << >>],
                     [kind |-> "pdf", files |-> << [name |-> "b.pdf", content |-> 2] >>] >>
  /\ added_files = << >>
  /\ raw_dir = {[name |-> "a.pdf", content |-> 2]}
  /\ Has(manifest, Hash(2)) /\ Get(manifest, Hash(2)) = Entry("a.pdf")

\* ------------------------------------------------------------------ chunking claims
\* C29 (as claimed): chunk_text returns for every text, chunk_size and
\* overlap, and what it returns holds every word of the text in some chunk
\* and no chunk of more than chunk_size words.
C29_ChunkerTerminatesAndCovers ==
  /\ <>(cpc = "done")
  /\ [](cpc = "done" =>
          /\ \A w \in 1..Len(words) :
               \E c \in 1..Len(chunks) : \E j \in 1..Len(chunks[c]) : chunks[c][j] = words[w]
          /\ \A c \in 1..Len(chunks) : Len(chunks[c]) <= chunk_size)

\* ------------------------------------------------------------------ crawl claims
\* C30 (as claimed): in _crawl_nih no URL is fetched twice, none is fetched
\* deeper than max_depth, at most max_pages URLs are fetched, the loop ends,
\* and the domain manifest is saved once, after the loop.
C30_CrawlBounded ==
  /\ [](\A i, j \in 1..Len(fetches) : i # j => fetches[i].url # fetches[j].url)
  /\ [](\A i \in 1..Len(fetches) : fetches[i].depth <= max_depth)
  /\ [](Len(fetches) <= max_pages)
  /\ <>(wpc = "done")
  /\ [](saves = IF wpc = "done" THEN 1 ELSE 0)

====
